---------------------------- MODULE Spec2Model ----------------------------
(***************************************************************************)
(* A model of OsmosisSwapModule                                            *)
(* (src/packages/wallet-sdk/src/swap-modules/osmosis.ts): the market data  *)
(* cache filled by the two fetches of the constructor, the pool lookup,    *)
(* the route resolver, the price composer and the swap executor.           *)
(*                                                                         *)
(* Conventions.                                                            *)
(*  - A decimal number (a bignumber.js BigNumber, or a JS number with few  *)
(*    digits) is a record [m, e] standing for m * 10^(-e), kept in normal  *)
(*    form (no trailing zero in m while e > 0), so that equal numbers are  *)
(*    equal records.                                                       *)
(*  - A pool identifier is the decimal string the feed uses as the JSON    *)
(*    key, written as its sequence of digits: "10" is <<1, 0>>.            *)
(*  - The result of an operation is [ok, val, err]: a returned value, or   *)
(*    the message of the Error the operation throws.                       *)
(***************************************************************************)
EXTENDS Integers, Sequences, FiniteSets, TLC

(***************************************************************************)
(* Bounds of the model.                                                    *)
(***************************************************************************)
\* the longest pools feed
MaxPools == 3
\* the decimal places a BigNumber division keeps (bignumber.js
\* DECIMAL_PLACES, 20 in the library, scaled down to fit TLC's integers)
DecimalPlaces == 3
\* the significant digits a JS number keeps (about 16 for a double, scaled
\* down with DecimalPlaces: a quotient has more digits than a number holds)
NumberDigits == 3
\* the most decimals a token of the denom registry has
MaxDecimals == 2

(***************************************************************************)
(* Symbols and String.prototype.toLowerCase on them.                       *)
(***************************************************************************)
NoValue == "undefined"

\* the symbol left as written (a comparison that minds letter case)
CaseKept(s) == s

toLowerCase(s) ==
  CASE s = "ATOM" -> "atom"
    [] s = "OSMO" -> "osmo"
    [] s = "FOO"  -> "foo"
    [] s = "Foo"  -> "foo"
    [] s = "BAR"  -> "bar"
    [] OTHER      -> s

(***************************************************************************)
(* Decimal arithmetic of bignumber.js, as the module uses it.              *)
(***************************************************************************)
RECURSIVE Pow10(_)
Pow10(n) == IF n = 0 THEN 1 ELSE 10 * Pow10(n - 1)

RECURSIVE Norm(_, _)
Norm(m, e) ==
  IF e > 0 /\ m % 10 = 0 THEN Norm(m \div 10, e - 1) ELSE [m |-> m, e |-> e]

\* the number of decimal digits of m (0 has none)
RECURSIVE NumDigits(_)
NumDigits(m) == IF m = 0 THEN 0 ELSE 1 + NumDigits(m \div 10)

\* n / d rounded to the nearest integer, halves up (ROUND_HALF_UP, the
\* library's default ROUNDING_MODE), for n >= 0 and d > 0
RoundHalfUp(n, d) == (2 * n + d) \div (2 * d)

\* new BigNumber(n) for a JS number n
BigNumber(n) == Norm(n.m, n.e)

\* BigNumber.multipliedBy: exact
multipliedBy(a, b) == Norm(a.m * b.m, a.e + b.e)

\* BigNumber.div: the quotient rounded to DECIMAL_PLACES places, halves up
div(a, b) ==
  Norm(RoundHalfUp(a.m * Pow10(b.e + DecimalPlaces), b.m * Pow10(a.e)),
       DecimalPlaces)

\* BigNumber.decimalPlaces(0): rounded to an integer, halves up
decimalPlaces0(a) == Norm(RoundHalfUp(a.m, Pow10(a.e)), 0)

\* BigNumber.toNumber: the nearest JS number, which keeps only the leading
\* significant digits of a long decimal
toNumber(a) ==
  LET n == NumDigits(a.m)
  IN  IF n <= NumberDigits THEN a
      ELSE LET cut == n - NumberDigits
               r   == RoundHalfUp(a.m, Pow10(cut))
           IN  IF a.e >= cut THEN Norm(r, a.e - cut)
               ELSE Norm(r * Pow10(cut - a.e), 0)

(***************************************************************************)
(* Pool identifiers: the JSON keys of the pools feed.                      *)
(***************************************************************************)
\* Number.prototype.toString of a positive integer, as a digit sequence
RECURSIVE ToDigits(_)
ToDigits(n) ==
  IF n < 10 THEN <<n>> ELSE Append(ToDigits(n \div 10), n % 10)

\* Long.fromString(poolId): the digits read in radix 10
RECURSIVE LongFromString(_)
LongFromString(s) ==
  IF s = <<>> THEN 0
  ELSE 10 * LongFromString(SubSeq(s, 1, Len(s) - 1)) + s[Len(s)]

\* a canonical array index: the key an engine lists first, in numeric order
IsArrayIndex(s) == s # <<>> /\ ToDigits(LongFromString(s)) = s

RECURSIVE SortedByIndex(_)
SortedByIndex(entries) ==
  IF entries = <<>> THEN <<>>
  ELSE LET lo == CHOOSE i \in DOMAIN entries :
                   \A j \in DOMAIN entries :
                     LongFromString(entries[i].id) <= LongFromString(entries[j].id)
           rest == [k \in 1..(Len(entries) - 1) |->
                      IF k < lo THEN entries[k] ELSE entries[k + 1]]
       IN  <<entries[lo]>> \o SortedByIndex(rest)

\* the feed's keys kept in the order the feed lists them (not what
\* Object.entries does for integer keys)
ObjectEntriesInInsertionOrder(feed) == feed

\* Object.entries(pools) of the parsed feed: integer keys first, in
\* ascending numeric order, then the other keys in insertion order
ObjectEntries(feed) ==
  SortedByIndex(SelectSeq(feed, LAMBDA en : IsArrayIndex(en.id)))
    \o SelectSeq(feed, LAMBDA en : ~IsArrayIndex(en.id))

(***************************************************************************)
(* The two feeds the constructor fetches, drawn from bounded families.     *)
(***************************************************************************)
Dec(m, e) == [m |-> m, e |-> e]

Asset(symbol, denom, price, liquidity) ==
  [symbol |-> symbol, denom |-> denom, price |-> price, liquidity |-> liquidity]

\* the asset pairs a pool of the feed may hold: both orientations of every
\* pair of ATOM, OSMO and Foo, with differing prices, denoms and liquidity
PoolCatalogue ==
  { <<Asset("ATOM", "uatom", Dec(10, 0), 500), Asset("OSMO", "uosmo", Dec(1, 0), 500)>>,
    <<Asset("OSMO", "uosmo", Dec(3, 0), 900), Asset("ATOM", "ibc/atom", Dec(1, 0), 900)>>,
    <<Asset("OSMO", "uosmo", Dec(1, 0), 200), Asset("Foo", "ufoo", Dec(3, 0), 200)>>,
    <<Asset("Foo", "ibc/foo", Dec(10, 0), 700), Asset("OSMO", "uosmo", Dec(3, 0), 700)>>,
    <<Asset("ATOM", "uatom", Dec(1, 0), 100), Asset("Foo", "ufoo", Dec(3, 0), 100)>>,
    <<Asset("Foo", "ufoo", Dec(3, 0), 800), Asset("ATOM", "uatom", Dec(10, 0), 800)>> }

FeeValues == {"0%", "0.2%"}

\* the k-th smallest pool identifier of the feeds: 1, 2, 10, 11, ...
IdNumber(k) == IF k <= 2 THEN k ELSE k + 7

PoolAsset(a, fees) ==
  [symbol |-> a.symbol, denom |-> a.denom, fees |-> fees,
   liquidity |-> a.liquidity, price |-> a.price]

\* a pools feed: the pools `bodies`, listed in ascending or in descending
\* order of their identifiers
PoolsFeed(bodies, idOrder, fees) ==
  [i \in DOMAIN bodies |->
     [id   |-> ToDigits(IdNumber(IF idOrder = "asc" THEN i
                                 ELSE Len(bodies) + 1 - i)),
      pair |-> <<PoolAsset(bodies[i][1], fees), PoolAsset(bodies[i][2], fees)>>]]

PoolsFeeds(idOrders, feeValues) ==
  { PoolsFeed(bodies, o, f) :
      bodies \in UNION { [1..n -> PoolCatalogue] : n \in 0..MaxPools },
      o \in idOrders, f \in feeValues }

FeedAsset(symbol, units, png) ==
  [symbol |-> symbol, denom_units |-> units, logo_URIs |-> [png |-> png]]

AssetsFeeds ==
  { [assets |-> << FeedAsset("OSMO", <<"uosmo", "osmo">>, "osmo.png"),
                   FeedAsset("ATOM", <<"uatom", "atom">>, "atom.png"),
                   FeedAsset("Foo",  <<"ufoo", "foo">>, "foo.png"),
                   FeedAsset("BAR",  <<"ubar", "bar">>, "bar.png") >>],
    [assets |-> << FeedAsset("BAR",  <<"ubar", "bar">>, "bar.png"),
                   FeedAsset("Foo",  <<"ufoo", "foo">>, "foo.png"),
                   FeedAsset("ATOM", <<"uatom", "atom">>, "atom.png") >>] }

NativeDenom(symbol, minimalDenom, decimals) ==
  [coinDenom |-> symbol, coinMinimalDenom |-> minimalDenom,
   coinDecimals |-> decimals]

\* the values of a DenomsRecord: the tokens of `symbols` among ATOM, OSMO,
\* Foo and BAR, each with `decimals` decimals
Denoms(symbols, decimals) ==
  SelectSeq(<<NativeDenom("ATOM", "uatom", decimals),
              NativeDenom("OSMO", "uosmo", decimals),
              NativeDenom("Foo", "ufoo", decimals),
              NativeDenom("BAR", "ubar", decimals)>>,
            LAMBDA d : d.coinDenom \in symbols)

\* the registries the wallet supplies: every token or all but ATOM, with
\* 0 to MaxDecimals decimals
DenomsRecords ==
  { Denoms(symbols, decimals) :
      symbols \in { {"ATOM", "OSMO", "Foo", "BAR"}, {"OSMO", "Foo", "BAR"} },
      decimals \in 0..MaxDecimals }

\* the pools feeds of the swaps: ATOM and Foo joined through OSMO, joined
\* directly, or no pool at all
SwapPoolsFeeds ==
  { PoolsFeed(<< <<Asset("ATOM", "uatom", Dec(10, 0), 500), Asset("OSMO", "uosmo", Dec(1, 0), 500)>>,
                 <<Asset("OSMO", "uosmo", Dec(1, 0), 200), Asset("Foo", "ufoo", Dec(3, 0), 200)>> >>,
              "desc", "0.2%"),
    PoolsFeed(<< <<Asset("ATOM", "uatom", Dec(1, 0), 100), Asset("Foo", "ufoo", Dec(3, 0), 100)>> >>,
              "asc", "0.2%"),
    PoolsFeed(<<>>, "asc", "0.2%") }

\* pools feeds with a pool that has the bridge asset on both sides, and
\* with pools that spell the bridge asset in lower case
DegeneratePoolsFeeds ==
  { PoolsFeed(bodies, "asc", "0.2%") : bodies \in
      { << <<Asset("OSMO", "uosmo", Dec(1, 0), 300), Asset("OSMO", "ibc/osmo", Dec(2, 0), 300)>> >>,
        << <<Asset("OSMO", "uosmo", Dec(1, 0), 300), Asset("OSMO", "ibc/osmo", Dec(2, 0), 300)>>,
           <<Asset("ATOM", "uatom", Dec(10, 0), 500), Asset("OSMO", "uosmo", Dec(1, 0), 500)>> >>,
        << <<Asset("OSMO", "uosmo", Dec(1, 0), 300), Asset("OSMO", "ibc/osmo", Dec(2, 0), 300)>>,
           <<Asset("OSMO", "uosmo", Dec(1, 0), 200), Asset("Foo", "ufoo", Dec(3, 0), 200)>>,
           <<Asset("ATOM", "uatom", Dec(10, 0), 500), Asset("OSMO", "uosmo", Dec(1, 0), 500)>> >>,
        << <<Asset("ATOM", "uatom", Dec(10, 0), 500), Asset("osmo", "uosmo", Dec(1, 0), 500)>>,
           <<Asset("osmo", "uosmo", Dec(1, 0), 200), Asset("Foo", "ufoo", Dec(3, 0), 200)>> >> } }

\* the swaps callers ask for: amounts with more decimals than some tokens
\* have, and slippages from none to all
SwapSymbols == {"ATOM", "OSMO", "Foo", "BAR"}
SwapAmounts == { Dec(1, 0), Dec(15, 2), Dec(125, 2) }
Slippages == { Dec(0, 0), Dec(1, 0), Dec(50, 0), Dec(100, 0) }

SwapRequests ==
  [fromTokenSymbol : SwapSymbols, targetTokenSymbol : SwapSymbols,
   fromTokenAmount : {Dec(125, 2)}, targetTokenAmount : SwapAmounts,
   slippage : Slippages]

\* the symbols and amounts callers pass
QuerySymbols == {"ATOM", "OSMO", "osmo", "FOO", "foo", "BAR"}

Amounts == { Dec(1, 0), Dec(5, 1) }

(***************************************************************************)
(* The state.                                                              *)
(***************************************************************************)
VARIABLES
  poolsFeed,          \* the response of the pools endpoint
  assetsFeed,         \* the response of the asset list endpoint
  poolsFetch,         \* the first promise of initializerPromise
  assetsFetch,        \* the second promise of initializerPromise
  poolsCacheEntries,
  coinsCache,
  tokenPriceCache,
  nativeDenomsByTokenSymbol,
  ret,                \* the last read call that completed, and its result
  swap,               \* the execution of swapTokens under way, if any
  fetchCalls,         \* how many times each endpoint has been fetched
  waiting,            \* the calls suspended at `await this.initializerPromise`
  awaited,            \* whether the call last completed had been suspended there
  ibc                 \* an execution of ibcChannelQuery

vars == <<poolsFeed, assetsFeed, poolsFetch, assetsFetch,
          poolsCacheEntries, coinsCache, tokenPriceCache,
          nativeDenomsByTokenSymbol, ret, swap, fetchCalls, waiting, awaited,
          ibc>>

initializer == <<fetchCalls, waiting, awaited>>

feeds == <<poolsFeed, assetsFeed>>
caches == <<poolsCacheEntries, coinsCache, tokenPriceCache>>

NoCall == [op |-> "none", args |-> <<>>, res |-> [ok |-> TRUE, val |-> NoValue, err |-> ""]]

Ok(v) == [ok |-> TRUE, val |-> v, err |-> ""]
Throw(msg) == [ok |-> FALSE, val |-> NoValue, err |-> msg]

\* an execution of swapTokens: where it stands (pc), the request, the
\* message built, the failure thrown or the data returned, and the calls
\* made to the chain client
NoSwap ==
  [pc |-> "idle", req |-> NoValue, msg |-> NoValue, data |-> NoValue,
   err |-> "", txHash |-> NoValue, broadcasts |-> 0, polls |-> 0,
   polledHash |-> NoValue, pollPromise |-> "none"]

\* the reduce of the constructor and of setDenoms: the denoms under their
\* coinDenom, a later one replacing an earlier one
RECURSIVE ByTokenSymbol(_)
ByTokenSymbol(denoms) ==
  IF denoms = <<>> THEN <<>>
  ELSE (denoms[Len(denoms)].coinDenom :> denoms[Len(denoms)])
         @@ ByTokenSymbol(SubSeq(denoms, 1, Len(denoms) - 1))

\* the constructor: the tables are empty and both fetches are in flight
Constructed(denoms) ==
  /\ nativeDenomsByTokenSymbol = ByTokenSymbol(denoms)
  /\ swap = NoSwap
  /\ poolsFetch = "pending"
  /\ assetsFetch = "pending"
  /\ poolsCacheEntries = <<>>
  /\ coinsCache = <<>>
  /\ tokenPriceCache = <<>>
  /\ ret = NoCall
  /\ fetchCalls = [pools |-> 1, assets |-> 1]
  /\ waiting = {}
  /\ awaited = FALSE

\* Promise.all of the two fetches has resolved
Initialized == poolsFetch = "resolved" /\ assetsFetch = "resolved"

(***************************************************************************)
(* The constructor's two fetch handlers.                                   *)
(***************************************************************************)
\* every side's price under its symbol, the first occurrence kept (a wrong
\* precedence)
RECURSIVE TokenPricesFirstSeen(_)
TokenPricesFirstSeen(entries) ==
  IF entries = <<>> THEN <<>>
  ELSE LET last == entries[Len(entries)].pair
           acc  == TokenPricesFirstSeen(SubSeq(entries, 1, Len(entries) - 1))
       IN  acc @@ (last[1].symbol :> BigNumber(last[1].price))
               @@ (last[2].symbol :> BigNumber(last[2].price))

\* the reduce of the pools handler: every side's price under its symbol,
\* a later occurrence replacing an earlier one
RECURSIVE TokenPrices(_)
TokenPrices(entries) ==
  IF entries = <<>> THEN <<>>
  ELSE LET last == entries[Len(entries)].pair
           acc  == TokenPrices(SubSeq(entries, 1, Len(entries) - 1))
       IN  (last[2].symbol :> BigNumber(last[2].price))
             @@ (last[1].symbol :> BigNumber(last[1].price)) @@ acc

PoolsFetched ==
  /\ poolsFetch = "pending"
  /\ poolsFetch' = "resolved"
  /\ poolsCacheEntries' = ObjectEntries(poolsFeed)
  /\ tokenPriceCache' = TokenPrices(ObjectEntries(poolsFeed))
  /\ UNCHANGED <<feeds, ibc, initializer, assetsFetch, coinsCache, nativeDenomsByTokenSymbol, ret, swap>>

SwapToken(asset) ==
  [symbol |-> asset.symbol,
   denom  |-> asset.denom_units[1],
   image  |-> asset.logo_URIs.png]

AssetsFetched ==
  /\ assetsFetch = "pending"
  /\ assetsFetch' = "resolved"
  /\ coinsCache' = [i \in DOMAIN assetsFeed.assets |-> SwapToken(assetsFeed.assets[i])]
  /\ UNCHANGED <<feeds, ibc, initializer, poolsFetch, poolsCacheEntries, tokenPriceCache,
                 nativeDenomsByTokenSymbol, ret, swap>>

(***************************************************************************)
(* getPoolPricesPairs                                                      *)
(***************************************************************************)
\* the predicate of the find
PoolMatch(entry, from, target) ==
  LET _from   == toLowerCase(from)
      _target == toLowerCase(target)
      _assetA == toLowerCase(entry.pair[1].symbol)
      _assetB == toLowerCase(entry.pair[2].symbol)
  IN  \/ (_assetA = _from /\ _assetB = _target)
      \/ (_assetA = _target /\ _assetB = _from)

\* Array.prototype.find: the first element, in index order, that matches
getPoolPricesPairs(entries, from, target) ==
  LET hits == { i \in DOMAIN entries : PoolMatch(entries[i], from, target) }
  IN  IF hits = {} THEN Throw("no-match")
      ELSE Ok(entries[CHOOSE i \in hits : \A j \in hits : i <= j])

GetPoolPricesPairs ==
  /\ Initialized
  /\ ret = NoCall
  /\ \E from \in QuerySymbols, target \in QuerySymbols :
       ret' = [op |-> "getPoolPricesPairs", args |-> <<from, target>>,
               res |-> getPoolPricesPairs(poolsCacheEntries, from, target)]
  /\ UNCHANGED <<feeds, ibc, initializer, poolsFetch, assetsFetch, caches, nativeDenomsByTokenSymbol, swap>>

\* the caller takes the result of its call and is free to call again
CallerContinues ==
  /\ ret # NoCall
  /\ ret' = NoCall
  /\ awaited' = FALSE
  /\ UNCHANGED <<feeds, ibc, fetchCalls, waiting, poolsFetch, assetsFetch, caches,
                 nativeDenomsByTokenSymbol, swap>>

(***************************************************************************)
(* getSwapRoute                                                            *)
(***************************************************************************)
\* the pair with the side that is not `symbol` put first (a wrong
\* orientation of the destructuring)
OrientedAwayFrom(symbol, assetA, assetB) ==
  IF toLowerCase(symbol) = toLowerCase(assetA.symbol)
  THEN <<assetB, assetA>> ELSE <<assetA, assetB>>

\* the pair with the side whose symbol is `symbol` put first:
\*   sym.toLowerCase() === assetA.symbol.toLowerCase() ? [A, B] : [B, A]
Oriented(symbol, assetA, assetB) ==
  IF toLowerCase(symbol) = toLowerCase(assetA.symbol)
  THEN <<assetA, assetB>> ELSE <<assetB, assetA>>

Hop(poolId, token) ==
  [poolId |-> LongFromString(poolId), tokenOutDenom |-> token.denom]

\* the catch block of getSwapRoute with the direct route returned again
\* (no bridge through OSMO)
BridgedRouteNeverTried(entries, from, target) ==
  getPoolPricesPairs(entries, from, target)

\* the catch block of getSwapRoute content with one leg: a missing leg is
\* left out of the route instead of failing it
BridgedRouteOneLegEnough(entries, from, target) ==
  LET legA == getPoolPricesPairs(entries, from, "OSMO")
      legB == getPoolPricesPairs(entries, "OSMO", target)
      hopA == IF legA.ok THEN <<Hop(legA.val.id, legA.val.pair[2])>> ELSE <<>>
      hopB == IF legB.ok THEN <<Hop(legB.val.id, legB.val.pair[2])>> ELSE <<>>
  IN  IF ~legA.ok /\ ~legB.ok THEN Throw("no-match") ELSE Ok(hopA \o hopB)

\* the catch block of getSwapRoute: the two legs through OSMO
BridgedRoute(entries, from, target) ==
  LET legA == getPoolPricesPairs(entries, from, "OSMO")
      legB == getPoolPricesPairs(entries, "OSMO", target)
  IN  IF ~legA.ok THEN Throw(legA.err)
      ELSE IF ~legB.ok THEN Throw(legB.err)
      ELSE LET xToken == Oriented(from, legA.val.pair[1], legA.val.pair[2])[2]
               targetToken ==
                 IF "osmo" = toLowerCase(legB.val.pair[1].symbol)
                 THEN legB.val.pair[2] ELSE legB.val.pair[1]
           IN  Ok(<<Hop(legA.val.id, xToken), Hop(legB.val.id, targetToken)>>)

\* the route always taken through the bridge: no direct lookup first
BridgeRouteOnly(entries, from, target) ==
  BridgedRoute(entries, from, target)

getSwapRoute(entries, from, target) ==
  LET direct == getPoolPricesPairs(entries, from, target)
  IN  IF direct.ok
      THEN LET targetToken == Oriented(from, direct.val.pair[1], direct.val.pair[2])[2]
           IN  Ok(<<Hop(direct.val.id, targetToken)>>)
      ELSE BridgedRoute(entries, from, target)

GetSwapRoute ==
  /\ Initialized
  /\ ret = NoCall
  /\ \E from \in QuerySymbols, target \in QuerySymbols :
       ret' = [op |-> "getSwapRoute", args |-> <<from, target>>,
               res |-> getSwapRoute(poolsCacheEntries, from, target)]
  /\ UNCHANGED <<feeds, ibc, initializer, poolsFetch, assetsFetch, caches, nativeDenomsByTokenSymbol, swap>>

(***************************************************************************)
(* getTokenToTokenPrice                                                    *)
(***************************************************************************)
\* the price per unit taken the wrong way round: target price over from
\* price
DirectQuoteInverted(fromToken, targetToken, tokenAmount) ==
  multipliedBy(div(BigNumber(targetToken.price), BigNumber(fromToken.price)),
               tokenAmount)

\* the pool's fee taken off the quote: "0.2%" leaves 0.998 of it
DirectQuoteLessFees(fromToken, targetToken, tokenAmount) ==
  multipliedBy(
    multipliedBy(div(BigNumber(fromToken.price), BigNumber(targetToken.price)),
                 tokenAmount),
    IF fromToken.fees = "0%" THEN Dec(1, 0) ELSE Dec(998, 3))

\* new BigNumber(fromToken.price).div(targetToken.price)
\*   .multipliedBy(tokenAmount)
DirectQuote(fromToken, targetToken, tokenAmount) ==
  multipliedBy(div(BigNumber(fromToken.price), BigNumber(targetToken.price)),
               tokenAmount)

\* new Error(err) for a caught Error err: the message is String(err)
Rethrow(msg) == Throw("Error: " \o msg)

\* the price composer with its direct tier only: a failed lookup is
\* rethrown, whatever the symbols
QuoteDirectOnly(entries, tokenASymbol, tokenBSymbol, tokenAmount) ==
  LET direct == getPoolPricesPairs(entries, tokenASymbol, tokenBSymbol)
  IN  IF direct.ok
      THEN LET tokens == Oriented(tokenASymbol, direct.val.pair[1], direct.val.pair[2])
           IN  Ok(DirectQuote(tokens[1], tokens[2], tokenAmount))
      ELSE Rethrow(direct.err)

RECURSIVE getTokenToTokenPrice(_, _, _, _)
getTokenToTokenPrice(entries, tokenASymbol, tokenBSymbol, tokenAmount) ==
  LET direct == getPoolPricesPairs(entries, tokenASymbol, tokenBSymbol)
  IN  IF direct.ok
      THEN LET tokens == Oriented(tokenASymbol, direct.val.pair[1], direct.val.pair[2])
           IN  Ok(DirectQuote(tokens[1], tokens[2], tokenAmount))
      ELSE IF direct.err = "no-match" /\ tokenASymbol # "OSMO" /\ tokenBSymbol # "OSMO"
      THEN LET valueA == getTokenToTokenPrice(entries, tokenASymbol, "OSMO", tokenAmount)
           IN  IF ~valueA.ok THEN valueA
               ELSE getTokenToTokenPrice(entries, "OSMO", tokenBSymbol,
                                         toNumber(valueA.val))
      ELSE Rethrow(direct.err)

\* the depth at which following the calls of getTokenToTokenPrice stops
MaxDepth == 3

\* the catch block recurses on any failed lookup, whatever the symbols
BridgeGuardAnyFailure(direct, tokenASymbol, tokenBSymbol) == ~direct.ok

\* err.message === 'no-match' && tokenASymbol !== 'OSMO'
\*   && tokenBSymbol !== 'OSMO'
BridgeGuard(direct, tokenASymbol, tokenBSymbol) ==
  direct.err = "no-match" /\ tokenASymbol # "OSMO" /\ tokenBSymbol # "OSMO"

RecursiveCall(tokenASymbol, tokenBSymbol, depth) ==
  [tokenASymbol |-> tokenASymbol, tokenBSymbol |-> tokenBSymbol, depth |-> depth]

\* getTokenToTokenPrice with the calls it makes to itself, each with its
\* depth below the top-level call, in the order they are made; a call
\* that would be made below MaxDepth is not followed
RECURSIVE QuoteCalls(_, _, _, _, _)
QuoteCalls(entries, tokenASymbol, tokenBSymbol, tokenAmount, depth) ==
  LET direct == getPoolPricesPairs(entries, tokenASymbol, tokenBSymbol)
  IN  IF direct.ok
      THEN LET tokens == Oriented(tokenASymbol, direct.val.pair[1], direct.val.pair[2])
           IN  [res |-> Ok(DirectQuote(tokens[1], tokens[2], tokenAmount)),
                calls |-> <<>>]
      ELSE IF BridgeGuard(direct, tokenASymbol, tokenBSymbol)
      THEN IF depth >= MaxDepth
           THEN [res |-> Throw("too-deep"), calls |-> <<>>]
           ELSE LET valueA == QuoteCalls(entries, tokenASymbol, "OSMO",
                                         tokenAmount, depth + 1)
                    callA  == <<RecursiveCall(tokenASymbol, "OSMO", depth + 1)>>
                                \o valueA.calls
                IN  IF ~valueA.res.ok
                    THEN [res |-> valueA.res, calls |-> callA]
                    ELSE LET valueB == QuoteCalls(entries, "OSMO", tokenBSymbol,
                                                  toNumber(valueA.res.val), depth + 1)
                         IN  [res   |-> valueB.res,
                              calls |-> callA
                                \o <<RecursiveCall("OSMO", tokenBSymbol, depth + 1)>>
                                \o valueB.calls]
      ELSE [res |-> Rethrow(direct.err), calls |-> <<>>]

GetTokenToTokenPrice ==
  /\ Initialized
  /\ ret = NoCall
  /\ \E a \in QuerySymbols, b \in QuerySymbols, amount \in Amounts :
       ret' = [op |-> "getTokenToTokenPrice", args |-> <<a, b, amount>>,
               res |-> getTokenToTokenPrice(poolsCacheEntries, a, b, amount)]
  /\ UNCHANGED <<feeds, ibc, initializer, poolsFetch, assetsFetch, caches, nativeDenomsByTokenSymbol, swap>>

\* the symbols paired with oneOfPair only (the bridge asset left out)
PairedWithSymbolOnly(entries, oneOfPair) ==
  { entries[i].pair[2].symbol : i \in { j \in DOMAIN entries :
        entries[j].pair[1].symbol = oneOfPair } }
  \cup
  { entries[i].pair[1].symbol : i \in { j \in DOMAIN entries :
        entries[j].pair[2].symbol = oneOfPair } }

(***************************************************************************)
(* getTargetCoinOptions                                                    *)
(***************************************************************************)
\* every symbol of every pool marked, whatever oneOfPair is
EveryPoolSymbol(entries, oneOfPair) ==
  { entries[i].pair[k].symbol : i \in DOMAIN entries, k \in 1..2 }

\* the symbols the forEach marks: the other side of every pool one side of
\* which is oneOfPair or OSMO
PairedCoins(entries, oneOfPair) ==
  { entries[i].pair[2].symbol : i \in { j \in DOMAIN entries :
        entries[j].pair[1].symbol = oneOfPair \/ entries[j].pair[1].symbol = "OSMO" } }
  \cup
  { entries[i].pair[1].symbol : i \in { j \in DOMAIN entries :
        entries[j].pair[2].symbol = oneOfPair \/ entries[j].pair[2].symbol = "OSMO" } }

\* the options filtered by the pools even when no symbol is given
PairedCoinOptions(entries, coins, oneOfPair) ==
  SelectSeq(coins, LAMBDA c : c.symbol \in PairedCoins(entries, oneOfPair))

getTargetCoinOptions(entries, coins, oneOfPair) ==
  IF oneOfPair = NoValue THEN coins
  ELSE SelectSeq(coins, LAMBDA c : c.symbol \in PairedCoins(entries, oneOfPair))

GetTargetCoinOptions ==
  /\ Initialized
  /\ ret = NoCall
  /\ \E oneOfPair \in QuerySymbols \cup {NoValue} :
       ret' = [op |-> "getTargetCoinOptions", args |-> <<oneOfPair>>,
               res |-> Ok(getTargetCoinOptions(poolsCacheEntries, coinsCache, oneOfPair))]
  /\ UNCHANGED <<feeds, ibc, initializer, poolsFetch, assetsFetch, caches, nativeDenomsByTokenSymbol, swap>>

(***************************************************************************)
(* getTokenUsdPrice and getDefaultGasAmount                                *)
(***************************************************************************)
\* this.tokenPriceCache[tokenSymbol]
getTokenUsdPrice(prices, tokenSymbol) ==
  IF tokenSymbol \in DOMAIN prices THEN prices[tokenSymbol] ELSE NoValue

GetTokenUsdPrice ==
  /\ Initialized
  /\ ret = NoCall
  /\ \E tokenSymbol \in QuerySymbols :
       ret' = [op |-> "getTokenUsdPrice", args |-> <<tokenSymbol>>,
               res |-> Ok(getTokenUsdPrice(tokenPriceCache, tokenSymbol))]
  /\ UNCHANGED <<feeds, ibc, initializer, poolsFetch, assetsFetch, caches, nativeDenomsByTokenSymbol, swap>>

\* the estimate that takes no account of the number of hops
FlatGasAmount(entries, from, to) ==
  LET swapRoute == getSwapRoute(entries, from, to)
  IN  IF swapRoute.ok THEN Ok(150000) ELSE swapRoute

\* 150_000 + 30_000 * (swapRoute.length - 1), or the Error of getSwapRoute
getDefaultGasAmount(entries, fromTokenSymbol, toTokenSymbol) ==
  LET swapRoute == getSwapRoute(entries, fromTokenSymbol, toTokenSymbol)
  IN  IF swapRoute.ok
      THEN Ok(150000 + 30000 * (Len(swapRoute.val) - 1))
      ELSE swapRoute

GetDefaultGasAmount ==
  /\ Initialized
  /\ ret = NoCall
  /\ \E from \in QuerySymbols, to \in QuerySymbols :
       ret' = [op |-> "getDefaultGasAmount", args |-> <<from, to>>,
               res |-> getDefaultGasAmount(poolsCacheEntries, from, to)]
  /\ UNCHANGED <<feeds, ibc, initializer, poolsFetch, assetsFetch, caches, nativeDenomsByTokenSymbol, swap>>

(***************************************************************************)
(* setDenoms and swapTokens                                                *)
(***************************************************************************)
\* setDenoms that also drops the price table, to have it rebuilt
SetDenomsDropsPrices ==
  /\ ret = NoCall
  /\ swap.pc = "idle"
  /\ \E denoms \in DenomsRecords :
       nativeDenomsByTokenSymbol' = ByTokenSymbol(denoms)
  /\ tokenPriceCache' = <<>>
  /\ UNCHANGED <<feeds, ibc, initializer, poolsFetch, assetsFetch, poolsCacheEntries,
                 coinsCache, ret, swap>>

SetDenoms ==
  /\ ret = NoCall
  /\ swap.pc = "idle"
  /\ \E denoms \in DenomsRecords :
       nativeDenomsByTokenSymbol' = ByTokenSymbol(denoms)
  /\ UNCHANGED <<feeds, ibc, initializer, poolsFetch, assetsFetch, caches, ret, swap>>

\* BigNumber.toString of a number below 1e21: the digits before the point
\* and the digits after it
RECURSIVE FractionDigits(_, _)
FractionDigits(n, places) ==
  IF places = 0 THEN <<>>
  ELSE Append(FractionDigits(n \div 10, places - 1), n % 10)

toString(a) ==
  [int  |-> ToDigits(a.m \div Pow10(a.e)),
   frac |-> FractionDigits(a.m % Pow10(a.e), a.e)]

\* 1 - slippage / 100 in JS numbers, for a slippage from 0 to 100
OneMinusPercent(slippage) ==
  toNumber(Norm(Pow10(slippage.e + 2) - slippage.m, slippage.e + 2))

\* this.coinsCache.find((coin) => coin.symbol === symbol)?.denom
CoinDenom(coins, symbol) ==
  LET hits == { i \in DOMAIN coins : coins[i].symbol = symbol }
  IN  IF hits = {} THEN NoValue
      ELSE coins[CHOOSE i \in hits : \A j \in hits : i <= j].denom

\* new BigNumber(amount).multipliedBy(10 ** coinDecimals)
AmountInMinimalDenom(amount, coinDecimals) ==
  multipliedBy(BigNumber(amount), BigNumber(Dec(Pow10(coinDecimals), 0)))

\* tokenOutAmountInMinimalDenom.multipliedBy(1 - slippage / 100)
\*   .decimalPlaces(0).toString()
TokenOutMinAmount(targetTokenAmount, coinDecimals, slippage) ==
  toString(decimalPlaces0(
    multipliedBy(AmountInMinimalDenom(targetTokenAmount, coinDecimals),
                 OneMinusPercent(slippage))))

Unsupported == "Swap pair is not supported"

\* the route resolved first and the tables looked at only when there is one
\* (a wrong order of the checks)
SwapMessageRouteFirst(req) ==
  LET from   == req.fromTokenSymbol
      target == req.targetTokenSymbol
      swapRoute == getSwapRoute(poolsCacheEntries, from, target)
  IN  IF ~swapRoute.ok THEN Throw(swapRoute.err)
      ELSE IF \/ CoinDenom(coinsCache, from) = NoValue
              \/ CoinDenom(coinsCache, target) = NoValue
              \/ from \notin DOMAIN nativeDenomsByTokenSymbol
              \/ target \notin DOMAIN nativeDenomsByTokenSymbol
           THEN Throw(Unsupported)
      ELSE Ok([msg |-> NoValue, data |-> NoValue])

\* swapTokens from its call to the message it builds, or to the Error it
\* throws before it has one
SwapMessage(req) ==
  LET from   == req.fromTokenSymbol
      target == req.targetTokenSymbol
      tokenInMinimalDenom  == CoinDenom(coinsCache, from)
      tokenOutMinimalDenom == CoinDenom(coinsCache, target)
      swapRoute == getSwapRoute(poolsCacheEntries, from, target)
  IN  IF tokenInMinimalDenom = NoValue THEN Throw(Unsupported)
      ELSE IF from \notin DOMAIN nativeDenomsByTokenSymbol THEN Throw(Unsupported)
      ELSE IF tokenOutMinimalDenom = NoValue THEN Throw(Unsupported)
      ELSE IF target \notin DOMAIN nativeDenomsByTokenSymbol THEN Throw(Unsupported)
      ELSE IF ~swapRoute.ok THEN Throw(swapRoute.err)
      ELSE LET tokenInNativeDenom  == nativeDenomsByTokenSymbol[from]
               tokenOutNativeDenom == nativeDenomsByTokenSymbol[target]
               tokenInAmountInMinimalDenom ==
                 toString(decimalPlaces0(
                   AmountInMinimalDenom(req.fromTokenAmount,
                                        tokenInNativeDenom.coinDecimals)))
               tokenOutAmountInMinimalDenom ==
                 AmountInMinimalDenom(req.targetTokenAmount,
                                      tokenOutNativeDenom.coinDecimals)
           IN  Ok([msg |->
                     [routes  |-> swapRoute.val,
                      tokenIn |-> [amount |-> tokenInAmountInMinimalDenom,
                                   denom  |-> tokenInMinimalDenom],
                      tokenOutMinAmount |->
                        TokenOutMinAmount(req.targetTokenAmount,
                                          tokenOutNativeDenom.coinDecimals,
                                          req.slippage)],
                   data |->
                     [liquidityPool |->
                        [i \in DOMAIN swapRoute.val |-> ToDigits(swapRoute.val[i].poolId)],
                      fromToken |-> [amount |-> tokenInAmountInMinimalDenom,
                                     denom  |-> tokenInNativeDenom.coinMinimalDenom],
                      toToken   |-> [amount |-> toString(tokenOutAmountInMinimalDenom),
                                     denom  |-> tokenOutNativeDenom.coinMinimalDenom]]])

\* the execution of swapTokens(req) once it has run to its first call of the
\* chain client, or to the Error it throws before
SwapStarted(req) ==
  LET built == SwapMessage(req)
  IN  IF built.ok
      THEN [NoSwap EXCEPT !.pc = "client", !.req = req,
                          !.msg = built.val.msg, !.data = built.val.data]
      ELSE [NoSwap EXCEPT !.pc = "failed", !.req = req, !.err = built.err]

\* swapTokens is called and runs to its first call of the chain client
SwapTokens ==
  /\ Initialized
  /\ ret = NoCall
  /\ swap.pc = "idle"
  /\ \E req \in SwapRequests : swap' = SwapStarted(req)
  /\ UNCHANGED <<feeds, ibc, initializer, poolsFetch, assetsFetch, caches, nativeDenomsByTokenSymbol, ret>>

\* client.initClient() and fetchAccountDetails resolve
ClientReady ==
  /\ swap.pc = "client"
  /\ swap' = [swap EXCEPT !.pc = "broadcast"]
  /\ UNCHANGED <<feeds, ibc, initializer, poolsFetch, assetsFetch, caches, nativeDenomsByTokenSymbol, ret>>

\* client.initClient() or fetchAccountDetails rejects
ClientFails ==
  /\ swap.pc = "client"
  /\ swap' = [swap EXCEPT !.pc = "failed", !.err = "client"]
  /\ UNCHANGED <<feeds, ibc, initializer, poolsFetch, assetsFetch, caches, nativeDenomsByTokenSymbol, ret>>

\* the hashes the chain client may answer a broadcast with
TxHashes == {"A1F0", "B2E9"}

\* signAndBroadcastTx resolves with the hash: swapTokens returns its
\* result, with the promise of pollForTx(txHash) in it
Broadcast ==
  /\ swap.pc = "broadcast"
  /\ \E hash \in TxHashes :
       swap' = [swap EXCEPT !.pc = "returned", !.txHash = hash,
                            !.broadcasts = @ + 1, !.polls = @ + 1,
                            !.polledHash = hash, !.pollPromise = "pending"]
  /\ UNCHANGED <<feeds, ibc, initializer, poolsFetch, assetsFetch, caches, nativeDenomsByTokenSymbol, ret>>

\* signAndBroadcastTx rejects and is called again (a retry the code does
\* not have)
BroadcastFailsAndRetries ==
  /\ swap.pc = "broadcast"
  /\ swap' = [swap EXCEPT !.broadcasts = @ + 1]
  /\ UNCHANGED <<feeds, ibc, initializer, poolsFetch, assetsFetch, caches, nativeDenomsByTokenSymbol, ret>>

\* signAndBroadcastTx rejects: so does swapTokens
BroadcastFails ==
  /\ swap.pc = "broadcast"
  /\ swap' = [swap EXCEPT !.pc = "failed", !.err = "broadcast",
                          !.broadcasts = @ + 1]
  /\ UNCHANGED <<feeds, ibc, initializer, poolsFetch, assetsFetch, caches, nativeDenomsByTokenSymbol, ret>>

\* the promise of pollForTx settles and a rejection of it becomes the
\* outcome of swapTokens (a wait for the confirmation the code does not have)
PollSettlesIntoResult ==
  /\ swap.pc = "returned"
  /\ swap.pollPromise = "pending"
  /\ \E outcome \in {"confirmed", "rejected"} :
       swap' = [swap EXCEPT !.pollPromise = outcome,
                            !.pc = IF outcome = "rejected" THEN "failed" ELSE @,
                            !.err = IF outcome = "rejected" THEN "poll" ELSE @]
  /\ UNCHANGED <<feeds, ibc, initializer, poolsFetch, assetsFetch, caches, nativeDenomsByTokenSymbol, ret>>

\* the promise of pollForTx settles
PollSettles ==
  /\ swap.pc = "returned"
  /\ swap.pollPromise = "pending"
  /\ \E outcome \in {"confirmed", "rejected"} :
       swap' = [swap EXCEPT !.pollPromise = outcome]
  /\ UNCHANGED <<feeds, ibc, initializer, poolsFetch, assetsFetch, caches, nativeDenomsByTokenSymbol, ret>>

\* the caller has the outcome of its swap and is free to call again
SwapCallerContinues ==
  /\ \/ swap.pc = "failed"
     \/ swap.pc = "returned" /\ swap.pollPromise # "pending"
  /\ swap' = NoSwap
  /\ awaited' = FALSE
  /\ UNCHANGED <<feeds, ibc, fetchCalls, waiting, poolsFetch, assetsFetch, caches,
                 nativeDenomsByTokenSymbol, ret>>

(***************************************************************************)
(* initializerPromise: the fetches may fail, and calls may be made before  *)
(* the promise settles.                                                    *)
(***************************************************************************)
\* the most calls suspended at a time
MaxWaiting == 2

\* what a failed fetch, res.json() or handler rejects with
FetchError == "fetch-failed"

\* Promise.all rejects as soon as one of its promises does
Rejected == poolsFetch = "rejected" \/ assetsFetch = "rejected"

Settled == Initialized \/ Rejected

PoolsFetchFails ==
  /\ poolsFetch = "pending"
  /\ poolsFetch' = "rejected"
  /\ UNCHANGED <<feeds, ibc, initializer, assetsFetch, caches, nativeDenomsByTokenSymbol, ret, swap>>

AssetsFetchFails ==
  /\ assetsFetch = "pending"
  /\ assetsFetch' = "rejected"
  /\ UNCHANGED <<feeds, ibc, initializer, poolsFetch, caches, nativeDenomsByTokenSymbol, ret, swap>>

\* the calls made around the initialisation
InitCalls ==
  { [op |-> "getTokenUsdPrice", args |-> <<"ATOM">>],
    [op |-> "getTargetCoinOptions", args |-> <<NoValue>>],
    [op |-> "getTargetCoinOptions", args |-> <<"ATOM">>],
    [op |-> "getPoolPricesPairs", args |-> <<"ATOM", "Foo">>],
    [op |-> "getTokenToTokenPrice", args |-> <<"ATOM", "Foo", Dec(1, 0)>>],
    [op |-> "getSwapRoute", args |-> <<"ATOM", "Foo">>],
    [op |-> "getDefaultGasAmount", args |-> <<"ATOM", "Foo">>],
    [op |-> "swapTokens",
     args |-> <<[fromTokenSymbol |-> "ATOM", targetTokenSymbol |-> "Foo",
                 fromTokenAmount |-> Dec(125, 2), targetTokenAmount |-> Dec(1, 0),
                 slippage |-> Dec(1, 0)]>>] }

\* what a read operation does after its await of initializerPromise, on
\* the tables as they are
Outcome(call) ==
  CASE call.op = "getTokenUsdPrice" ->
         Ok(getTokenUsdPrice(tokenPriceCache, call.args[1]))
    [] call.op = "getTargetCoinOptions" ->
         Ok(getTargetCoinOptions(poolsCacheEntries, coinsCache, call.args[1]))
    [] call.op = "getPoolPricesPairs" ->
         getPoolPricesPairs(poolsCacheEntries, call.args[1], call.args[2])
    [] call.op = "getTokenToTokenPrice" ->
         getTokenToTokenPrice(poolsCacheEntries, call.args[1], call.args[2], call.args[3])
    [] call.op = "getSwapRoute" ->
         getSwapRoute(poolsCacheEntries, call.args[1], call.args[2])
    [] call.op = "getDefaultGasAmount" ->
         getDefaultGasAmount(poolsCacheEntries, call.args[1], call.args[2])

\* the tables read whatever has become of the promise (a partial success)
OutcomeOfTables(call) == Outcome(call)

\* `await this.initializerPromise` on a settled promise, and what follows
SettledOutcome(call) ==
  IF Rejected THEN Throw(FetchError) ELSE Outcome(call)

\* the call completes: a read operation with its result, swapTokens with
\* its first steps
Complete(call, suspended) ==
  /\ awaited' = suspended
  /\ IF call.op = "swapTokens"
     THEN /\ swap' = IF Rejected
                     THEN [NoSwap EXCEPT !.pc = "failed", !.req = call.args[1],
                                         !.err = FetchError]
                     ELSE SwapStarted(call.args[1])
          /\ ret' = ret
     ELSE /\ ret' = [op |-> call.op, args |-> call.args, res |-> SettledOutcome(call)]
          /\ swap' = swap

\* a call that does not wait for the promise and reads the tables at once
CallReadsAtOnce ==
  /\ ~Settled
  /\ ret = NoCall
  /\ swap.pc = "idle"
  /\ \E call \in InitCalls :
       /\ call.op # "swapTokens"
       /\ ret' = [op |-> call.op, args |-> call.args, res |-> Outcome(call)]
  /\ awaited' = TRUE
  /\ UNCHANGED <<feeds, ibc, fetchCalls, waiting, poolsFetch, assetsFetch, caches,
                 nativeDenomsByTokenSymbol, swap>>

\* a call that finds the promise pending and has the feeds fetched again
CallFetchesAgain ==
  /\ ~Settled
  /\ Cardinality(waiting) < MaxWaiting
  /\ \E call \in InitCalls \ waiting : waiting' = waiting \cup {call}
  /\ fetchCalls' = [pools |-> fetchCalls.pools + 1, assets |-> fetchCalls.assets + 1]
  /\ UNCHANGED <<feeds, ibc, awaited, poolsFetch, assetsFetch, caches,
                 nativeDenomsByTokenSymbol, ret, swap>>

\* a call made while the promise is pending: it is suspended at its await
IssueCall ==
  /\ ~Settled
  /\ Cardinality(waiting) < MaxWaiting
  /\ \E call \in InitCalls \ waiting : waiting' = waiting \cup {call}
  /\ UNCHANGED <<feeds, ibc, fetchCalls, awaited, poolsFetch, assetsFetch, caches,
                 nativeDenomsByTokenSymbol, ret, swap>>

\* the promise has settled: a suspended call goes on
ResumeCall ==
  /\ Settled
  /\ ret = NoCall
  /\ swap.pc = "idle"
  /\ \E call \in waiting :
       /\ waiting' = waiting \ {call}
       /\ Complete(call, TRUE)
  /\ UNCHANGED <<feeds, ibc, fetchCalls, poolsFetch, assetsFetch, caches,
                 nativeDenomsByTokenSymbol>>

\* a call made once the promise has settled
CallSettled ==
  /\ Settled
  /\ ret = NoCall
  /\ swap.pc = "idle"
  /\ \E call \in InitCalls : Complete(call, FALSE)
  /\ UNCHANGED <<feeds, ibc, fetchCalls, waiting, poolsFetch, assetsFetch, caches,
                 nativeDenomsByTokenSymbol>>

(***************************************************************************)
(* ibcChannelQuery (wallet-hooks, useFetchCW20Tokens.ts): one GET of the   *)
(* channel, repeated after a timeout while retries are left.               *)
(***************************************************************************)
\* the largest retry a caller passes, besides leaving it out
MaxRetry == 2

\* no execution follows more requests than this
MaxRequests == 8

\* retry = 5
DefaultRetry == 5

NoResult == [success |-> FALSE, message |-> "", data |-> NoValue]

NoQuery ==
  [pc |-> "idle", retry |-> 0, given |-> 0, notFoundError |-> NoValue,
   requests |-> 0, errors |-> <<>>, result |-> NoResult]

\* what axios.get rejects with, or getUrl throws: the status of the
\* response, if there is one, and the error code, if there is one
AxiosErrors ==
  [status : {NoValue, "404", "500"},
   code   : {NoValue, "ECONNABORTED", "ERR_NETWORK"}]

ThrownByGetUrl == [status |-> NoValue, code |-> NoValue]

ChannelData == {"STATE_OPEN", "STATE_CLOSED"}

Success(data) == [success |-> TRUE, message |-> "", data |-> data]
Failure(message) == [success |-> FALSE, message |-> message, data |-> NoValue]

\* notFoundError ?? 'Channel does not exist'
NotFoundMessage(notFoundError) ==
  IF notFoundError = NoValue THEN "Channel does not exist" ELSE notFoundError

\* the call: retry takes its default when it is left out; the body is
\* entered
IbcChannelQuery ==
  /\ ibc.pc = "idle"
  /\ \E retry \in (0..MaxRetry) \cup {DefaultRetry},
        notFoundError \in {NoValue, "No such channel"} :
       ibc' = [NoQuery EXCEPT !.pc = "try", !.retry = retry, !.given = retry,
                              !.notFoundError = notFoundError]
  /\ UNCHANGED <<feeds, initializer, poolsFetch, assetsFetch, caches,
                 nativeDenomsByTokenSymbol, ret, swap>>

\* axios.get(getUrl(), { timeout }) is issued and awaited
RequestIssued ==
  /\ ibc.pc = "try"
  /\ ibc.requests < MaxRequests
  /\ ibc' = [ibc EXCEPT !.pc = "awaiting", !.requests = @ + 1]
  /\ UNCHANGED <<feeds, initializer, poolsFetch, assetsFetch, caches,
                 nativeDenomsByTokenSymbol, ret, swap>>

\* the catch block that calls again after a timeout without counting
\* retry down
CaughtRetryKept(e) ==
  IF e.status = "404"
  THEN [ibc EXCEPT !.pc = "returned", !.errors = Append(@, e),
                   !.result = Failure(NotFoundMessage(ibc.notFoundError))]
  ELSE IF e.code = "ECONNABORTED"
  THEN IF ibc.retry > 0
       THEN [ibc EXCEPT !.pc = "try", !.errors = Append(@, e)]
       ELSE [ibc EXCEPT !.pc = "returned", !.errors = Append(@, e),
                        !.result = Failure("Failed to validate channel id, please try again")]
  ELSE [ibc EXCEPT !.pc = "returned", !.errors = Append(@, e),
                   !.result = Failure("Failed to fetch channel info")]

\* the catch block: what the execution becomes when e is caught
Caught(e) ==
  IF e.status = "404"
  THEN [ibc EXCEPT !.pc = "returned", !.errors = Append(@, e),
                   !.result = Failure(NotFoundMessage(ibc.notFoundError))]
  ELSE IF e.code = "ECONNABORTED"
  THEN IF ibc.retry > 0
       THEN [ibc EXCEPT !.pc = "try", !.retry = @ - 1, !.errors = Append(@, e)]
       ELSE [ibc EXCEPT !.pc = "returned", !.errors = Append(@, e),
                        !.result = Failure("Failed to validate channel id, please try again")]
  ELSE [ibc EXCEPT !.pc = "returned", !.errors = Append(@, e),
                   !.result = Failure("Failed to fetch channel info")]

\* getUrl() throws inside the try block: no request is issued
GetUrlThrows ==
  /\ ibc.pc = "try"
  /\ ibc' = Caught(ThrownByGetUrl)
  /\ UNCHANGED <<feeds, initializer, poolsFetch, assetsFetch, caches,
                 nativeDenomsByTokenSymbol, ret, swap>>

\* the request is answered: { success: true, data: response.data }
RequestSucceeds ==
  /\ ibc.pc = "awaiting"
  /\ \E data \in ChannelData :
       ibc' = [ibc EXCEPT !.pc = "returned", !.result = Success(data)]
  /\ UNCHANGED <<feeds, initializer, poolsFetch, assetsFetch, caches,
                 nativeDenomsByTokenSymbol, ret, swap>>

\* the request is rejected and the error caught
RequestFails ==
  /\ ibc.pc = "awaiting"
  /\ \E e \in AxiosErrors : ibc' = Caught(e)
  /\ UNCHANGED <<feeds, initializer, poolsFetch, assetsFetch, caches,
                 nativeDenomsByTokenSymbol, ret, swap>>

\* the caller has the result
QueryCallerContinues ==
  /\ ibc.pc = "returned"
  /\ ibc' = NoQuery
  /\ UNCHANGED <<feeds, initializer, poolsFetch, assetsFetch, caches,
                 nativeDenomsByTokenSymbol, ret, swap>>

(***************************************************************************)
(* Specifications.                                                         *)
(***************************************************************************)
\* the pool lookup and the route resolver, over feeds in either order
InitRoute ==
  /\ poolsFeed \in PoolsFeeds({"asc", "desc"}, {"0.2%"})
  /\ assetsFeed \in AssetsFeeds
  /\ Constructed(Denoms({"ATOM", "OSMO", "Foo"}, 6))
  /\ ibc = NoQuery

NextRoute ==
  \/ PoolsFetched
  \/ AssetsFetched
  \/ GetPoolPricesPairs
  \/ GetSwapRoute
  \/ GetDefaultGasAmount
  \/ CallerContinues

SpecRoute == InitRoute /\ [][NextRoute]_vars

\* the price table, over feeds in either order
InitPrice ==
  /\ poolsFeed \in PoolsFeeds({"asc", "desc"}, {"0.2%"})
  /\ assetsFeed \in AssetsFeeds
  /\ Constructed(Denoms({"ATOM", "OSMO", "Foo"}, 6))
  /\ ibc = NoQuery

NextPrice ==
  \/ PoolsFetched
  \/ AssetsFetched
  \/ GetTokenUsdPrice
  \/ CallerContinues

SpecPrice == InitPrice /\ [][NextPrice]_vars

\* the price composer and the target options, over feeds with either fees
InitQuote ==
  /\ poolsFeed \in PoolsFeeds({"asc"}, FeeValues)
  /\ assetsFeed \in AssetsFeeds
  /\ Constructed(Denoms({"ATOM", "OSMO", "Foo"}, 6))
  /\ ibc = NoQuery

NextQuote ==
  \/ PoolsFetched
  \/ AssetsFetched
  \/ GetTokenToTokenPrice
  \/ GetTargetCoinOptions
  \/ CallerContinues

SpecQuote == InitQuote /\ [][NextQuote]_vars

\* the initialisation, with fetches that may fail and calls made early
InitInitializer ==
  /\ poolsFeed \in SwapPoolsFeeds
  /\ assetsFeed \in AssetsFeeds
  /\ Constructed(Denoms({"ATOM", "OSMO", "Foo", "BAR"}, 1))
  /\ ibc = NoQuery

NextInitializer ==
  \/ PoolsFetched
  \/ AssetsFetched
  \/ PoolsFetchFails
  \/ AssetsFetchFails
  \/ IssueCall
  \/ ResumeCall
  \/ CallSettled
  \/ CallerContinues
  \/ ClientReady
  \/ ClientFails
  \/ Broadcast
  \/ BroadcastFails
  \/ PollSettles
  \/ SwapCallerContinues

SpecInitializer == InitInitializer /\ [][NextInitializer]_vars

\* the swap executor, over the registries the wallet may supply
InitSwap ==
  /\ poolsFeed \in SwapPoolsFeeds
  /\ assetsFeed \in AssetsFeeds
  /\ \E denoms \in DenomsRecords : Constructed(denoms)
  /\ ibc = NoQuery

NextSwap ==
  \/ PoolsFetched
  \/ AssetsFetched
  \/ SetDenoms
  \/ SwapTokens
  \/ ClientReady
  \/ ClientFails
  \/ Broadcast
  \/ BroadcastFails
  \/ PollSettles
  \/ SwapCallerContinues

SpecSwap == InitSwap /\ [][NextSwap]_vars

\* every public operation, before and after the initialisation settles
InitFrame ==
  /\ poolsFeed \in SwapPoolsFeeds
  /\ assetsFeed \in AssetsFeeds
  /\ Constructed(Denoms({"ATOM", "OSMO", "Foo", "BAR"}, 1))
  /\ ibc = NoQuery

NextFrame ==
  \/ PoolsFetched
  \/ AssetsFetched
  \/ PoolsFetchFails
  \/ AssetsFetchFails
  \/ SetDenoms
  \/ CallSettled
  \/ CallerContinues
  \/ ClientReady
  \/ ClientFails
  \/ Broadcast
  \/ BroadcastFails
  \/ PollSettles
  \/ SwapCallerContinues

SpecFrame == InitFrame /\ [][NextFrame]_vars

\* the route resolver, the price composer and the target options side by
\* side, over the catalogue's feeds and the degenerate ones
InitAgree ==
  /\ poolsFeed \in PoolsFeeds({"asc"}, {"0.2%"}) \cup DegeneratePoolsFeeds
  /\ assetsFeed \in AssetsFeeds
  /\ Constructed(Denoms({"ATOM", "OSMO", "Foo"}, 6))
  /\ ibc = NoQuery

NextAgree ==
  \/ PoolsFetched
  \/ AssetsFetched
  \/ GetSwapRoute
  \/ GetTokenToTokenPrice
  \/ GetTargetCoinOptions
  \/ CallerContinues

SpecAgree == InitAgree /\ [][NextAgree]_vars

\* the channel query alone; every request awaited settles, and the caller
\* and the continuations get to run
InitChannel ==
  /\ poolsFeed = PoolsFeed(<<>>, "asc", "0.2%")
  /\ assetsFeed \in AssetsFeeds
  /\ Constructed(<<>>)
  /\ ibc = NoQuery

NextChannel ==
  \/ IbcChannelQuery
  \/ RequestIssued
  \/ GetUrlThrows
  \/ RequestSucceeds
  \/ RequestFails
  \/ QueryCallerContinues

SpecChannel == InitChannel /\ [][NextChannel]_vars /\ WF_vars(NextChannel)

(***************************************************************************)
(* What the claims are stated with: tokens up to letter case, and the      *)
(* pools of the feed that connect two tokens.                              *)
(***************************************************************************)
CaseClasses == { {"ATOM"}, {"OSMO", "osmo"}, {"FOO", "Foo", "foo"}, {"BAR"} }

SameToken(a, b) == \E c \in CaseClasses : a \in c /\ b \in c

\* side k of the pool is token a and the other side is token b
SideIs(entry, k, a, b) ==
  /\ SameToken(entry.pair[k].symbol, a)
  /\ SameToken(entry.pair[3 - k].symbol, b)

Connects(entry, a, b) == SideIs(entry, 1, a, b) \/ SideIs(entry, 2, a, b)

FeedEntries == { poolsFeed[i] : i \in DOMAIN poolsFeed }

Connecting(a, b) == { en \in FeedEntries : Connects(en, a, b) }

\* the number a pool identifier denotes
IdValue(id) == CHOOSE n \in 0..99 : ToDigits(n) = id

\* the hop goes through the pool `entry` and leaves it on its `out` side,
\* the other side being `in`
HopThrough(hop, entry, in, out) ==
  /\ hop.poolId = IdValue(entry.id)
  /\ \E k \in 1..2 : SideIs(entry, k, out, in) /\ hop.tokenOutDenom = entry.pair[k].denom

RouteCall == ret.op = "getSwapRoute"
PairsCall == ret.op = "getPoolPricesPairs"
From == ret.args[1]
To == ret.args[2]

(***************************************************************************)
(* C1: when a pool connects `from` and `to` (symbols compared without      *)
(* regard to letter case), getSwapRoute returns exactly one hop, through   *)
(* such a pool, whose tokenOutDenom is the denom of that pool's `to` side, *)
(* also when pools from-OSMO and OSMO-to exist.                            *)
(***************************************************************************)
C1_DirectRoutePreferred ==
  (RouteCall /\ Connecting(From, To) # {}) =>
    /\ ret.res.ok
    /\ Len(ret.res.val) = 1
    /\ \E en \in Connecting(From, To) : HopThrough(ret.res.val[1], en, From, To)

C1_Witness ==
  /\ RouteCall
  /\ Connecting(From, To) # {}
  /\ Connecting(From, "OSMO") # {}
  /\ Connecting("OSMO", To) # {}
  /\ ~SameToken(From, "OSMO") /\ ~SameToken(To, "OSMO")
  /\ ret.res.ok /\ Len(ret.res.val) = 1

(***************************************************************************)
(* C2: when no pool connects `from` and `to` but a from-OSMO pool and an   *)
(* OSMO-to pool exist, getSwapRoute returns exactly two hops: the first    *)
(* through a from-OSMO pool, leaving on its OSMO side, the second through  *)
(* an OSMO-to pool, leaving on its `to` side.                              *)
(***************************************************************************)
C2_BridgedRouteTwoHops ==
  (/\ RouteCall
   /\ Connecting(From, To) = {}
   /\ Connecting(From, "OSMO") # {}
   /\ Connecting("OSMO", To) # {}) =>
    /\ ret.res.ok
    /\ Len(ret.res.val) = 2
    /\ \E en \in Connecting(From, "OSMO") : HopThrough(ret.res.val[1], en, From, "OSMO")
    /\ \E en \in Connecting("OSMO", To) : HopThrough(ret.res.val[2], en, "OSMO", To)

C2_Witness ==
  /\ RouteCall
  /\ Connecting(From, To) = {}
  /\ Connecting(From, "OSMO") # {}
  /\ Connecting("OSMO", To) # {}
  /\ ~SameToken(From, To)
  /\ ret.res.ok /\ Len(ret.res.val) = 2

(***************************************************************************)
(* C3: when no pool connects `from` and `to` and the from-OSMO pool or the *)
(* OSMO-to pool is missing, getSwapRoute throws the no-match error and     *)
(* returns no route.                                                       *)
(***************************************************************************)
C3_NoRouteWhenLegMissing ==
  (/\ RouteCall
   /\ Connecting(From, To) = {}
   /\ (Connecting(From, "OSMO") = {} \/ Connecting("OSMO", To) = {})) =>
    /\ ~ret.res.ok
    /\ ret.res.err = "no-match"

\* neither symbol is connected to OSMO, though the feed holds pools
C3_Witness ==
  /\ RouteCall
  /\ From = "FOO" /\ To = "BAR"
  /\ poolsFeed # <<>>
  /\ Connecting(From, "OSMO") = {}
  /\ Connecting("OSMO", To) = {}
  /\ ~ret.res.ok

\* one leg exists and the other is missing
C3_WitnessOneLeg ==
  /\ RouteCall
  /\ Connecting(From, To) = {}
  /\ Connecting(From, "OSMO") # {}
  /\ Connecting("OSMO", To) = {}
  /\ ~ret.res.ok

(***************************************************************************)
(* C4: getPoolPricesPairs is symmetric and case-insensitive: the call with *)
(* the two symbols exchanged, or with either symbol in another letter      *)
(* case, has the same outcome (the same entry, or the same failure); and   *)
(* the call succeeds exactly when a pool connects the two tokens.          *)
(***************************************************************************)
C4_PairsSymmetricCaseInsensitive ==
  PairsCall =>
    /\ ret.res.ok <=> (Connecting(From, To) # {})
    /\ \A a \in QuerySymbols, b \in QuerySymbols :
         (SameToken(a, From) /\ SameToken(b, To)) =>
           /\ getPoolPricesPairs(poolsCacheEntries, a, b) = ret.res
           /\ getPoolPricesPairs(poolsCacheEntries, b, a) = ret.res

\* a successful lookup whose symbols are written in another case than the
\* feed's, with the pool listing them in the other order
C4_Witness ==
  /\ PairsCall
  /\ From = "foo" /\ To = "osmo"
  /\ ret.res.ok
  /\ ret.res.val.pair[1].symbol = "OSMO"
  /\ ret.res.val.pair[2].symbol = "Foo"

(***************************************************************************)
(* C5 as claimed: of several pools connecting the pair, getPoolPricesPairs *)
(* returns the one the feed lists first.                                   *)
(***************************************************************************)
C5_FirstInFeedOrder ==
  (PairsCall /\ ret.res.ok) =>
    \E i \in DOMAIN poolsFeed :
      /\ ret.res.val = poolsFeed[i]
      /\ \A j \in DOMAIN poolsFeed : Connects(poolsFeed[j], From, To) => i <= j

(***************************************************************************)
(* C5 as amended: of several pools connecting the pair, getPoolPricesPairs *)
(* returns the one with the smallest numeric identifier (the first in the  *)
(* order of Object.entries), whatever its place in the feed, its liquidity *)
(* and its prices.                                                         *)
(***************************************************************************)
C5_FirstInNumericIdOrder ==
  (PairsCall /\ ret.res.ok) =>
    /\ ret.res.val \in Connecting(From, To)
    /\ \A en \in Connecting(From, To) : IdValue(ret.res.val.id) <= IdValue(en.id)

\* the returned pool is listed after another connecting pool, which has
\* more liquidity, another price and an identifier that is a longer string
C5_Witness ==
  /\ PairsCall
  /\ ret.res.ok
  /\ \E i \in DOMAIN poolsFeed, j \in DOMAIN poolsFeed :
       /\ i < j
       /\ ret.res.val = poolsFeed[j]
       /\ Connects(poolsFeed[i], From, To)
       /\ poolsFeed[i].pair[1].liquidity > poolsFeed[j].pair[1].liquidity
       /\ poolsFeed[i].pair[1].price # poolsFeed[j].pair[1].price
       /\ Len(poolsFeed[i].id) > Len(poolsFeed[j].id)
(***************************************************************************)
(* What the claims about quotes are stated with.                           *)
(***************************************************************************)
QuoteCall == ret.op = "getTokenToTokenPrice"
OptionsCall == ret.op = "getTargetCoinOptions"
Amount == ret.args[3]

\* the connecting pool that getPoolPricesPairs finds: the first in the
\* order of the identifiers
FirstConnecting(a, b) ==
  CHOOSE en \in Connecting(a, b) :
    \A other \in Connecting(a, b) : IdValue(en.id) <= IdValue(other.id)

\* the side of the pool that is token a, the other side being token b; when
\* a and b are one token, the first side
SideOf(entry, a, b) ==
  IF SideIs(entry, 1, a, b) THEN entry.pair[1] ELSE entry.pair[2]

\* q has at most DecimalPlaces decimals and no number with as many is
\* nearer to p / r
NearestQuotient(q, p, r) ==
  /\ q.e <= DecimalPlaces
  /\ LET n    == q.m * Pow10(DecimalPlaces - q.e)
         diff == n * r.m * Pow10(p.e) - p.m * Pow10(r.e + DecimalPlaces)
     IN  /\ 2 * diff <= r.m * Pow10(p.e)
         /\ -2 * diff <= r.m * Pow10(p.e)

\* p / r has at most DecimalPlaces decimals
ExactQuotient(p, r) ==
  (p.m * Pow10(r.e + DecimalPlaces)) % (r.m * Pow10(p.e)) = 0

\* the cache with every fees field set to f
WithFees(entries, f) ==
  [i \in DOMAIN entries |->
     [id |-> entries[i].id,
      pair |-> <<[entries[i].pair[1] EXCEPT !.fees = f],
                 [entries[i].pair[2] EXCEPT !.fees = f]>>]]

(***************************************************************************)
(* C6: when a pool connects `from` and `to`, getTokenToTokenPrice returns  *)
(* x * (fromPrice / toPrice), the prices being those of the `from` side    *)
(* and of the `to` side of the first connecting pool and the quotient the  *)
(* nearest number with DECIMAL_PLACES decimals; ATOM at 10 and OSMO at 1   *)
(* give quote(ATOM, OSMO, 1) = 10.                                         *)
(***************************************************************************)
C6_DirectQuote ==
  (QuoteCall /\ Connecting(From, To) # {}) =>
    LET en == FirstConnecting(From, To)
        pf == SideOf(en, From, To).price
        pt == SideOf(en, To, From).price
        q  == div(pf, pt)
    IN  /\ ret.res.ok
        /\ NearestQuotient(q, pf, pt)
        /\ ret.res.val = multipliedBy(q, Amount)
        /\ (pf = Dec(10, 0) /\ pt = Dec(1, 0) /\ Amount = Dec(1, 0))
             => ret.res.val = Dec(10, 0)

\* the scenario of the claim, asked with the pool's sides in feed order
C6_Witness ==
  /\ QuoteCall
  /\ From = "ATOM" /\ To = "OSMO" /\ Amount = Dec(1, 0)
  /\ Len(poolsFeed) = 1
  /\ poolsFeed[1].pair[1].symbol = "ATOM" /\ poolsFeed[1].pair[1].price = Dec(10, 0)
  /\ poolsFeed[1].pair[2].symbol = "OSMO" /\ poolsFeed[1].pair[2].price = Dec(1, 0)
  /\ ret.res.ok /\ ret.res.val = Dec(10, 0)

(***************************************************************************)
(* C7 as claimed: when no pool connects `from` and `to` but both legs      *)
(* through OSMO exist, getTokenToTokenPrice(from, to, x) is the quote from *)
(* OSMO to `to` of exactly the quote from `from` to OSMO of x: the first   *)
(* leg's result reaches the second leg without rounding.                   *)
(***************************************************************************)
C7_BridgedQuoteExact ==
  (/\ QuoteCall
   /\ Connecting(From, To) = {}
   /\ Connecting(From, "OSMO") # {}
   /\ Connecting("OSMO", To) # {}) =>
    LET valueA == getTokenToTokenPrice(poolsCacheEntries, From, "OSMO", Amount)
    IN  /\ ret.res.ok
        /\ valueA.ok
        /\ ret.res = getTokenToTokenPrice(poolsCacheEntries, "OSMO", To, valueA.val)

(***************************************************************************)
(* C8 as claimed: a direct quote round-trips, for every fees value:        *)
(* quote(to, from, quote(from, to, x)) = x.                                *)
(***************************************************************************)
C8_RoundTripExact ==
  (QuoteCall /\ Connecting(From, To) # {}) =>
    /\ ret.res.ok
    /\ getTokenToTokenPrice(poolsCacheEntries, To, From, ret.res.val) = Ok(Amount)

(***************************************************************************)
(* C8 as amended: a direct quote is the same for every value of the fees   *)
(* fields, and it round-trips, quote(to, from, quote(from, to, x)) = x,    *)
(* whenever the two price quotients fromPrice / toPrice and                *)
(* toPrice / fromPrice are exact in DECIMAL_PLACES decimals.               *)
(***************************************************************************)
C8_RoundTripWhenQuotientsExact ==
  (QuoteCall /\ Connecting(From, To) # {}) =>
    LET en == FirstConnecting(From, To)
        pf == SideOf(en, From, To).price
        pt == SideOf(en, To, From).price
    IN  /\ ret.res.ok
        /\ \A f \in FeeValues :
             getTokenToTokenPrice(WithFees(poolsCacheEntries, f), From, To, Amount)
               = ret.res
        /\ (ExactQuotient(pf, pt) /\ ExactQuotient(pt, pf)) =>
             getTokenToTokenPrice(poolsCacheEntries, To, From, ret.res.val)
               = Ok(Amount)

\* a round trip through a pool that charges fees, with a fractional amount
C8_Witness ==
  /\ QuoteCall
  /\ Connecting(From, To) # {}
  /\ Amount = Dec(5, 1)
  /\ LET en == FirstConnecting(From, To)
     IN  /\ en.pair[1].fees = "0.2%"
         /\ ExactQuotient(SideOf(en, From, To).price, SideOf(en, To, From).price)
         /\ ExactQuotient(SideOf(en, To, From).price, SideOf(en, From, To).price)
         /\ SideOf(en, From, To).price # SideOf(en, To, From).price
  /\ ret.res.ok
  /\ ret.res.val # Amount
  /\ getTokenToTokenPrice(poolsCacheEntries, To, From, ret.res.val) = Ok(Amount)

(***************************************************************************)
(* C9: a token of the asset list that is in no pool is among the tokens    *)
(* getTargetCoinOptions() returns when called without an argument, while   *)
(* getTokenToTokenPrice(x, token, amount) throws the no-match error for    *)
(* every source symbol x and every amount.                                 *)
(***************************************************************************)
ListedSymbols == { assetsFeed.assets[i].symbol : i \in DOMAIN assetsFeed.assets }

InNoPool(t) ==
  \A en \in FeedEntries : \A k \in 1..2 : ~SameToken(en.pair[k].symbol, t)

C9_ListedButUnroutable ==
  /\ (OptionsCall /\ ret.args[1] = NoValue) =>
       /\ ret.res.ok
       /\ \A t \in ListedSymbols :
            InNoPool(t) => \E j \in DOMAIN ret.res.val : ret.res.val[j].symbol = t
  /\ (QuoteCall /\ \E t \in ListedSymbols : SameToken(t, To) /\ InNoPool(t)) =>
       /\ ~ret.res.ok
       /\ ret.res.err = "Error: no-match"

\* the source is connected to OSMO, the listed target is in no pool
C9_Witness ==
  /\ QuoteCall
  /\ From = "ATOM" /\ To = "BAR"
  /\ "BAR" \in ListedSymbols /\ InNoPool("BAR")
  /\ Connecting("ATOM", "OSMO") # {}
  /\ ~ret.res.ok
  /\ ret.res.err = "Error: no-match"

(***************************************************************************)
(* C10 as claimed: in swapTokens, for every target amount and decimals     *)
(* count, slippage 0 gives a tokenOutMinAmount equal to the target amount  *)
(* in minimal denom (the exact product targetTokenAmount * 10^decimals, or *)
(* the whole number of minimal units in it), and slippage 100 gives 0.     *)
(***************************************************************************)
MessageBuilt == swap.pc \in {"client", "broadcast", "returned"}

IntegerString(n) == [int |-> ToDigits(n), frac |-> <<>>]

C10_SlippageZeroAndFull ==
  MessageBuilt =>
    LET target   == swap.req.targetTokenAmount
        decimals == nativeDenomsByTokenSymbol[swap.req.targetTokenSymbol].coinDecimals
        units    == target.m * Pow10(decimals)
    IN  /\ swap.req.slippage = Dec(0, 0) =>
             \/ swap.msg.tokenOutMinAmount = swap.data.toToken.amount
             \/ swap.msg.tokenOutMinAmount = IntegerString(units \div Pow10(target.e))
        /\ swap.req.slippage = Dec(100, 0) =>
             swap.msg.tokenOutMinAmount = IntegerString(0)

(***************************************************************************)
(* C11 as claimed: swapTokens converts with floor semantics: the tokenIn   *)
(* amount of the message is floor(fromTokenAmount * 10^decimals) and       *)
(* tokenOutMinAmount is                                                    *)
(* floor(targetTokenAmount * 10^decimals * (1 - slippage / 100)): a        *)
(* fraction of a minimal unit is cut off, never rounded up.                *)
(***************************************************************************)
\* floor(amount * 10^decimals * percent / 100)
FloorOfShare(amount, decimals, percent) ==
  (amount.m * Pow10(decimals) * percent) \div (Pow10(amount.e) * 100)

C11_FloorSemantics ==
  MessageBuilt =>
    LET req  == swap.req
        decIn  == nativeDenomsByTokenSymbol[req.fromTokenSymbol].coinDecimals
        decOut == nativeDenomsByTokenSymbol[req.targetTokenSymbol].coinDecimals
        kept   == 100 - req.slippage.m
    IN  /\ swap.msg.tokenIn.amount
             = IntegerString(FloorOfShare(req.fromTokenAmount, decIn, 100))
        /\ swap.msg.tokenOutMinAmount
             = IntegerString(FloorOfShare(req.targetTokenAmount, decOut, kept))

(***************************************************************************)
(* C12: swapTokens throws the unsupported-pair error whenever              *)
(* fromTokenSymbol or targetTokenSymbol is missing from coinsCache or from *)
(* the registry of native denoms, whether or not the pools give a route;   *)
(* it gets past these checks only when both symbols are in both tables.    *)
(***************************************************************************)
SwapCalled == swap.pc # "idle"

\* the symbol is a coin of the asset list and a denom of the registry
InBothTables(symbol) ==
  /\ \E i \in DOMAIN coinsCache : coinsCache[i].symbol = symbol
  /\ symbol \in DOMAIN nativeDenomsByTokenSymbol

PairSupported ==
  InBothTables(swap.req.fromTokenSymbol) /\ InBothTables(swap.req.targetTokenSymbol)

RouteExists ==
  getSwapRoute(poolsCacheEntries, swap.req.fromTokenSymbol,
               swap.req.targetTokenSymbol).ok

C12_UnsupportedPair ==
  SwapCalled =>
    /\ ~PairSupported => (swap.pc = "failed" /\ swap.err = Unsupported)
    /\ PairSupported => swap.err # Unsupported
    /\ (PairSupported /\ RouteExists) => (MessageBuilt \/ swap.err \in {"client", "broadcast"})

\* a pair the pools connect, refused because a table lacks one of its symbols
C12_Witness ==
  /\ SwapCalled
  /\ RouteExists
  /\ ~InBothTables(swap.req.targetTokenSymbol)
  /\ InBothTables(swap.req.fromTokenSymbol)
  /\ swap.pc = "failed" /\ swap.err = Unsupported

(***************************************************************************)
(* C13: an execution of swapTokens that ends with the unsupported-pair or  *)
(* the no-route error never calls signAndBroadcastTx; every execution      *)
(* calls it at most once, and only after the pair checks and the route     *)
(* resolution have succeeded.                                              *)
(***************************************************************************)
NoRoute == "no-match"

C13_BroadcastAtMostOnce ==
  /\ swap.broadcasts <= 1
  /\ (swap.pc = "failed" /\ swap.err \in {Unsupported, NoRoute}) =>
       swap.broadcasts = 0
  /\ swap.broadcasts > 0 =>
       /\ PairSupported
       /\ RouteExists
       /\ swap.pc \in {"returned", "failed"}
       /\ swap.pc = "failed" => swap.err = "broadcast"

\* a broadcast that failed: swapTokens has failed and has not tried again
C13_Witness ==
  /\ swap.pc = "failed"
  /\ swap.err = "broadcast"
  /\ swap.broadcasts = 1

\* both failures before the message is built
C13_WitnessNoRoute ==
  /\ swap.pc = "failed"
  /\ swap.err = NoRoute
  /\ PairSupported
  /\ swap.broadcasts = 0

C14_WitnessPending ==
  /\ swap.pc = "returned"
  /\ swap.pollPromise = "pending"

(***************************************************************************)
(* C18: the token price table has exactly the symbols that appear in a     *)
(* pool; the entry of a symbol of several pools is the price of its last   *)
(* occurrence in the order the pools are iterated in (no averaging);       *)
(* getTokenUsdPrice of a symbol that is in no pool returns undefined,      *)
(* never zero.                                                             *)
(***************************************************************************)
PoolSymbols == { en.pair[k].symbol : en \in FeedEntries, k \in 1..2 }

\* the pools with the symbol on a side
PoolsOf(symbol) ==
  { en \in FeedEntries : \E k \in 1..2 : en.pair[k].symbol = symbol }

\* the last of them in the order of Object.entries
LastPoolOf(symbol) ==
  CHOOSE en \in PoolsOf(symbol) :
    \A other \in PoolsOf(symbol) : IdValue(other.id) <= IdValue(en.id)

\* the price of the last side of the pool that has the symbol
LastPriceIn(entry, symbol) ==
  IF entry.pair[2].symbol = symbol THEN entry.pair[2].price
  ELSE entry.pair[1].price

UsdPriceCall == ret.op = "getTokenUsdPrice"

C18_LastSeenPrice ==
  /\ poolsFetch = "resolved" =>
       /\ DOMAIN tokenPriceCache = PoolSymbols
       /\ \A symbol \in PoolSymbols :
            tokenPriceCache[symbol] = LastPriceIn(LastPoolOf(symbol), symbol)
  /\ UsdPriceCall =>
       /\ ret.res.ok
       /\ IF ret.args[1] \in PoolSymbols
          THEN ret.res.val = LastPriceIn(LastPoolOf(ret.args[1]), ret.args[1])
          ELSE ret.res.val = NoValue

\* a symbol with two prices, the feed listing the pool iterated last first
C18_Witness ==
  /\ UsdPriceCall
  /\ ret.args[1] \in PoolSymbols
  /\ Len(poolsFeed) >= 2
  /\ IdValue(poolsFeed[1].id) > IdValue(poolsFeed[Len(poolsFeed)].id)
  /\ LastPoolOf(ret.args[1]) = poolsFeed[1]
  /\ \E en \in PoolsOf(ret.args[1]) :
       LastPriceIn(en, ret.args[1]) # LastPriceIn(poolsFeed[1], ret.args[1])
  /\ ret.res.val = LastPriceIn(poolsFeed[1], ret.args[1])

\* a symbol of no pool: the price is undefined
C18_WitnessAbsent ==
  /\ UsdPriceCall
  /\ PoolSymbols # {}
  /\ ret.args[1] \notin PoolSymbols
  /\ ret.res.val = NoValue

(***************************************************************************)
(* C19: getTargetCoinOptions(s) returns exactly the tokens of the asset    *)
(* list whose symbol shares a pool with s or with OSMO, in the order of    *)
(* the asset list; without an argument it returns the whole asset list.    *)
(***************************************************************************)
\* a pool has t on one side and u on the other
SharesPool(t, u) ==
  \E en \in FeedEntries : \E k \in 1..2 :
    en.pair[k].symbol = t /\ en.pair[3 - k].symbol = u

\* the asset list as the coins the module hands out
ListedCoins ==
  [i \in DOMAIN assetsFeed.assets |->
     [symbol |-> assetsFeed.assets[i].symbol,
      denom  |-> assetsFeed.assets[i].denom_units[1],
      image  |-> assetsFeed.assets[i].logo_URIs.png]]

SharingCoin(c) == SharesPool(c.symbol, ret.args[1]) \/ SharesPool(c.symbol, "OSMO")

C19_TargetCoinOptions ==
  OptionsCall =>
    /\ ret.res.ok
    /\ IF ret.args[1] = NoValue
       THEN ret.res.val = ListedCoins
       ELSE ret.res.val = SelectSeq(ListedCoins, SharingCoin)

\* some coins are kept and some dropped, one kept for its pool with OSMO
\* only and one for its pool with the symbol only
C19_Witness ==
  /\ OptionsCall
  /\ ret.args[1] = "ATOM"
  /\ Len(ret.res.val) >= 2
  /\ Len(ret.res.val) < Len(ListedCoins)
  /\ \E i \in DOMAIN ret.res.val :
       /\ SharesPool(ret.res.val[i].symbol, "OSMO")
       /\ ~SharesPool(ret.res.val[i].symbol, "ATOM")
  /\ \E i \in DOMAIN ret.res.val :
       /\ ~SharesPool(ret.res.val[i].symbol, "OSMO")
       /\ SharesPool(ret.res.val[i].symbol, "ATOM")

(***************************************************************************)
(* C20: getDefaultGasAmount(from, to) returns 150000 + 30000 * (hops - 1), *)
(* hops being the length of getSwapRoute(from, to): 150000 for a direct    *)
(* route, 180000 for a route through OSMO, and no other value; it throws   *)
(* the no-match error exactly when getSwapRoute does.                      *)
(***************************************************************************)
GasCall == ret.op = "getDefaultGasAmount"

C20_DefaultGasAmount ==
  GasCall =>
    LET route == getSwapRoute(ObjectEntries(poolsFeed), From, To)
    IN  /\ ret.res.ok <=> route.ok
        /\ ~ret.res.ok => (ret.res.err = route.err /\ ret.res.err = NoRoute)
        /\ ret.res.ok =>
             /\ ret.res.val \in {150000, 180000}
             /\ ret.res.val = 150000 + 30000 * (Len(route.val) - 1)
             /\ ret.res.val = 150000 <=> Connecting(From, To) # {}
             /\ ret.res.val = 180000 <=>
                  /\ Connecting(From, To) = {}
                  /\ Connecting(From, "OSMO") # {}
                  /\ Connecting("OSMO", To) # {}

\* the estimate of a route of two hops
C20_Witness ==
  /\ GasCall
  /\ Connecting(From, To) = {}
  /\ ret.res.ok
  /\ ret.res.val = 180000

C20_WitnessDirect ==
  /\ GasCall
  /\ ret.res.ok
  /\ ret.res.val = 150000

C20_WitnessNoRoute ==
  /\ GasCall
  /\ ~ret.res.ok

(***************************************************************************)
(* C15: whatever the order of the two fetch completions and of the calls,  *)
(* no read operation has a result, and swapTokens has gone no further      *)
(* than its await, before both the pools fetch and the asset fetch have    *)
(* completed; a call made before the completion has the result of the      *)
(* same call made after it.                                                *)
(***************************************************************************)
ReadDone == ret.op # "none"

TheCall == [op |-> ret.op, args |-> ret.args]

\* both tables hold the whole of their feed
TablesFilled ==
  /\ poolsCacheEntries = ObjectEntries(poolsFeed)
  /\ coinsCache = ListedCoins
  /\ DOMAIN tokenPriceCache = PoolSymbols

C15_ReadsAwaitBothFetches ==
  /\ ReadDone => Settled
  /\ SwapCalled => Settled
  /\ (ReadDone /\ ret.res.ok) => Initialized
  /\ MessageBuilt => Initialized
  /\ Initialized => TablesFilled
  /\ (ReadDone /\ Initialized) => ret.res = Outcome(TheCall)
  /\ (SwapCalled /\ Initialized) =>
       (SwapMessage(swap.req).ok <=>
          (MessageBuilt \/ swap.err \in {"client", "broadcast"}))

\* a route asked for before the feeds were in, resolved from the whole feed
C15_Witness ==
  /\ ReadDone
  /\ awaited
  /\ ret.op = "getSwapRoute"
  /\ Initialized
  /\ ret.res.ok
  /\ waiting # {}

\* a swap asked for before the feeds were in, with its message built
C15_WitnessSwap ==
  /\ MessageBuilt
  /\ awaited

(***************************************************************************)
(* C16: once the pools fetch or the asset fetch has failed, every call of  *)
(* an operation that depends on the tables fails with the error of the     *)
(* fetch and returns no value, at any later time and also when the other   *)
(* fetch has succeeded and filled its table.                               *)
(***************************************************************************)
C16_NoPartialSuccess ==
  Rejected =>
    /\ ReadDone => (~ret.res.ok /\ ret.res.err = FetchError)
    /\ SwapCalled => (swap.pc = "failed" /\ swap.err = FetchError)

\* the asset fetch failed, the pools table is filled, and the pool lookup,
\* called after that, fails
C16_Witness ==
  /\ assetsFetch = "rejected"
  /\ poolsFetch = "resolved"
  /\ Len(poolsCacheEntries) > 0
  /\ ret.op = "getPoolPricesPairs"
  /\ ~awaited
  /\ ~ret.res.ok
  /\ ret.res.err = FetchError

\* the pools fetch failed, the asset list is in, and swapTokens fails
C16_WitnessSwap ==
  /\ poolsFetch = "rejected"
  /\ assetsFetch = "resolved"
  /\ swap.pc = "failed"
  /\ swap.err = FetchError

(***************************************************************************)
(* C17: one instance fetches the pools once and the asset list once,       *)
(* whatever calls are made on it and whenever: the callers that find the   *)
(* initialiser pending all wait for that one promise.                      *)
(***************************************************************************)
C17_OneFetchEach ==
  /\ fetchCalls = [pools |-> 1, assets |-> 1]
  /\ (waiting # {} /\ ~Settled) => (ret.op = "none" /\ swap.pc = "idle")

\* two callers wait while both fetches are in flight
C17_Witness ==
  /\ Cardinality(waiting) >= 2
  /\ poolsFetch = "pending"
  /\ assetsFetch = "pending"
  /\ fetchCalls = [pools |-> 1, assets |-> 1]
(***************************************************************************)
(* C21: when the from symbol or the to symbol is the bridge asset OSMO,    *)
(* in any letter case, getSwapRoute and getTokenToTokenPrice give the      *)
(* one-hop direct result when a pool connects the two symbols and the      *)
(* no-route failure otherwise, and no route of two hops is returned: the   *)
(* bridge is never routed through to itself.                               *)
(***************************************************************************)
BridgeSide == SameToken(From, "OSMO") \/ SameToken(To, "OSMO")

NoRouteRethrown == "Error: no-match"

C21_NoSelfRouting ==
  /\ (RouteCall /\ BridgeSide) =>
        IF Connecting(From, To) # {}
        THEN /\ ret.res.ok
             /\ Len(ret.res.val) = 1
             /\ HopThrough(ret.res.val[1], FirstConnecting(From, To), From, To)
        ELSE ~ret.res.ok /\ ret.res.err = NoRoute
  /\ (QuoteCall /\ BridgeSide) =>
        IF Connecting(From, To) # {}
        THEN /\ ret.res.ok
             /\ \E k \in 1..2 :
                  /\ SideIs(FirstConnecting(From, To), k, From, To)
                  /\ ret.res.val =
                       DirectQuote(FirstConnecting(From, To).pair[k],
                                   FirstConnecting(From, To).pair[3 - k], Amount)
        ELSE ~ret.res.ok /\ ret.res.err = NoRouteRethrown
  /\ (RouteCall /\ ret.res.ok /\ Len(ret.res.val) = 2) => ~BridgeSide

\* OSMO to ATOM over a direct pool: one hop
C21_Witness ==
  /\ RouteCall
  /\ From = "OSMO" /\ To = "ATOM"
  /\ Connecting(From, To) # {}
  /\ ret.res.ok /\ Len(ret.res.val) = 1

\* a pool of OSMO with OSMO exists, yet "osmo" to BAR has no route and no
\* quote
C21_WitnessSelfPool ==
  /\ QuoteCall
  /\ From = "osmo" /\ To = "BAR"
  /\ Connecting("OSMO", "OSMO") # {}
  /\ ~ret.res.ok

(***************************************************************************)
(* C22: once both fetches have resolved, no step changes the pool table,   *)
(* the asset table or the price table; a step of a read operation or of    *)
(* swapTokens leaves the native denom registry as it is too, so that the   *)
(* registry changes in steps of setDenoms only, which change nothing else. *)
(***************************************************************************)
\* a step of a read operation (a call returns, or its caller goes on) or
\* of swapTokens
OperationStep ==
  \/ ret'.op # ret.op
  \/ swap'.pc # swap.pc
  \/ swap'.pollPromise # swap.pollPromise
  \/ swap'.broadcasts # swap.broadcasts
  \/ swap'.polls # swap.polls

C22_TablesFrozen ==
  [][Initialized =>
       /\ Initialized'
       /\ UNCHANGED caches
       /\ OperationStep => UNCHANGED nativeDenomsByTokenSymbol
       /\ (nativeDenomsByTokenSymbol' # nativeDenomsByTokenSymbol) =>
            /\ ~OperationStep
            /\ UNCHANGED <<feeds, ibc, initializer, poolsFetch, assetsFetch, caches>>]_vars

\* setDenoms has replaced the registry, a read operation has returned and
\* the tables are those of the feeds
C22_Witness ==
  /\ Initialized
  /\ "ATOM" \notin DOMAIN nativeDenomsByTokenSymbol
  /\ ret.op = "getTokenUsdPrice"
  /\ ret.args[1] \in PoolSymbols
  /\ TablesFilled
  /\ poolsCacheEntries # <<>>

\* swapTokens has returned and the tables are those of the feeds
C22_WitnessSwap ==
  /\ Initialized
  /\ swap.pc = "returned"
  /\ TablesFilled
  /\ poolsCacheEntries # <<>>

(***************************************************************************)
(* C23: for every feed and every pair of symbols, in any letter case,      *)
(* getTokenToTokenPrice succeeds exactly when getSwapRoute does; when the  *)
(* route has one hop the quote is the direct quote over the pool of that   *)
(* hop, and when it has two hops the quote is composed over the pools of   *)
(* the two hops, through OSMO.                                             *)
(***************************************************************************)
RouteOfCall == getSwapRoute(poolsCacheEntries, From, To)

PoolOfHop(hop) == CHOOSE en \in FeedEntries : IdValue(en.id) = hop.poolId

\* the quote of x of token a in token b over the pool `entry`
QuoteOver(entry, a, b, x) ==
  IF SideIs(entry, 1, a, b)
  THEN DirectQuote(entry.pair[1], entry.pair[2], x)
  ELSE DirectQuote(entry.pair[2], entry.pair[1], x)

C23_QuoteAgreesWithRoute ==
  /\ QuoteCall =>
        /\ ret.res.ok <=> RouteOfCall.ok
        /\ ret.res.ok =>
             IF Len(RouteOfCall.val) = 1
             THEN /\ Connecting(From, To) # {}
                  /\ ret.res.val =
                       QuoteOver(PoolOfHop(RouteOfCall.val[1]), From, To, Amount)
             ELSE /\ Connecting(From, To) = {}
                  /\ Len(RouteOfCall.val) = 2
                  /\ ret.res.val =
                       QuoteOver(PoolOfHop(RouteOfCall.val[2]), "OSMO", To,
                         toNumber(QuoteOver(PoolOfHop(RouteOfCall.val[1]),
                                            From, "OSMO", Amount)))
  /\ RouteCall =>
        \A x \in Amounts :
          ret.res.ok <=> getTokenToTokenPrice(poolsCacheEntries, From, To, x).ok

\* a quote over two pools, where the route has two hops
C23_Witness ==
  /\ QuoteCall
  /\ From = "ATOM" /\ To = "foo"
  /\ ret.res.ok
  /\ RouteOfCall.ok /\ Len(RouteOfCall.val) = 2

\* a quote over one pool, where the route has one hop
C23_WitnessDirect ==
  /\ QuoteCall
  /\ From = "FOO" /\ To = "osmo"
  /\ ret.res.ok
  /\ RouteOfCall.ok /\ Len(RouteOfCall.val) = 1

\* pools exist and neither a quote nor a route does
C23_WitnessNeither ==
  /\ RouteCall
  /\ From = "ATOM" /\ To = "FOO"
  /\ Connecting("ATOM", "OSMO") # {}
  /\ ~ret.res.ok
  /\ ~getTokenToTokenPrice(poolsCacheEntries, From, To, Dec(1, 0)).ok

(***************************************************************************)
(* C24: a top-level call of getTokenToTokenPrice makes at most two calls   *)
(* to itself, each of them directly (none is made by a recursive call),    *)
(* each with OSMO as one of its two symbols; this for every feed and every *)
(* pair of symbols, those that differ from OSMO in letter case only and    *)
(* those with from = to included.  The calls followed give the result the  *)
(* operation returns.                                                      *)
(***************************************************************************)
CallsOfQuote == QuoteCalls(poolsCacheEntries, From, To, Amount, 0)

C24_QuoteTerminates ==
  QuoteCall =>
    /\ Len(CallsOfQuote.calls) <= 2
    /\ \A i \in DOMAIN CallsOfQuote.calls :
         /\ CallsOfQuote.calls[i].depth = 1
         /\ \/ CallsOfQuote.calls[i].tokenASymbol = "OSMO"
            \/ CallsOfQuote.calls[i].tokenBSymbol = "OSMO"
    /\ CallsOfQuote.res.ok = ret.res.ok
    /\ CallsOfQuote.res.err = ret.res.err
    /\ ret.res.ok => CallsOfQuote.res.val = ret.res.val

\* "osmo" is not the symbol the guard knows: one recursive call is made,
\* it fails and no further one follows
C24_Witness ==
  /\ QuoteCall
  /\ From = "osmo" /\ To = "BAR"
  /\ poolsCacheEntries # <<>>
  /\ Len(CallsOfQuote.calls) = 1
  /\ ~ret.res.ok

\* from = to: two recursive calls, through OSMO and back
C24_WitnessSame ==
  /\ QuoteCall
  /\ From = "ATOM" /\ To = "ATOM"
  /\ Len(CallsOfQuote.calls) = 2
  /\ ret.res.ok

(***************************************************************************)
(* C25, as stated: every token t that getTargetCoinOptions(s) returns has  *)
(* a symbol other than s, and getSwapRoute(s, t.symbol) succeeds.          *)
(***************************************************************************)
OptionsFor == ret.args[1]

OptionSymbols == { ret.res.val[i].symbol : i \in DOMAIN ret.res.val }

C25_OptionsSwappable ==
  (OptionsCall /\ OptionsFor # NoValue) =>
    \A t \in OptionSymbols :
      /\ t # OptionsFor
      /\ getSwapRoute(poolsCacheEntries, OptionsFor, t).ok

(***************************************************************************)
(* C25, amended: every token t that getTargetCoinOptions(s) returns        *)
(* shares a pool with s or with OSMO, and getSwapRoute(s, t.symbol)        *)
(* succeeds exactly when a pool connects s with t or s with OSMO; s        *)
(* itself may be among the tokens returned.                                *)
(***************************************************************************)
C25_OptionsSwappableThroughBridge ==
  (OptionsCall /\ OptionsFor # NoValue) =>
    \A t \in OptionSymbols :
      /\ SharesPool(t, OptionsFor) \/ SharesPool(t, "OSMO")
      /\ getSwapRoute(poolsCacheEntries, OptionsFor, t).ok
           <=> (Connecting(OptionsFor, t) # {} \/ Connecting(OptionsFor, "OSMO") # {})

\* BAR is in no pool: the tokens paired with OSMO are offered and none of
\* them can be reached from BAR
C25_Witness ==
  /\ OptionsCall
  /\ OptionsFor = "BAR"
  /\ OptionSymbols # {}
  /\ \A t \in OptionSymbols : ~getSwapRoute(poolsCacheEntries, OptionsFor, t).ok

\* ATOM is paired with OSMO and is offered as a target of ATOM
C25_WitnessItself ==
  /\ OptionsCall
  /\ OptionsFor = "ATOM"
  /\ "ATOM" \in OptionSymbols

\* every token offered can be reached, one of them over two hops
C25_WitnessSwappable ==
  /\ OptionsCall
  /\ OptionsFor = "ATOM"
  /\ \E t \in OptionSymbols :
       /\ Connecting(OptionsFor, t) = {}
       /\ t # OptionsFor
  /\ \A t \in OptionSymbols : getSwapRoute(poolsCacheEntries, OptionsFor, t).ok

(***************************************************************************)
(* C26: an execution of ibcChannelQuery ends with a result value: it       *)
(* issues at most retry + 1 requests (DefaultRetry + 1 when retry is left  *)
(* out), every request but the first follows a timeout (ECONNABORTED, no   *)
(* 404), a 404 gives the not-found failure at once, any other error the    *)
(* generic failure at once, a timeout with no retry left the failure to    *)
(* validate, and a request that succeeds gives success with its data.      *)
(***************************************************************************)
Timeout(e) == e.code = "ECONNABORTED" /\ e.status # "404"

LastError == ibc.errors[Len(ibc.errors)]

QueryInv ==
  /\ ibc.requests <= ibc.given + 1
  /\ ibc.retry + Len(ibc.errors) >= ibc.given
  /\ \A i \in 1..Len(ibc.errors) :
       i < Len(ibc.errors) \/ ibc.pc \in {"try", "awaiting"} => Timeout(ibc.errors[i])
  /\ ibc.pc = "awaiting" => ibc.requests = Len(ibc.errors) + 1
  /\ (ibc.pc = "returned" /\ ibc.result.success) =>
        /\ ibc.result.data \in ChannelData
        /\ ibc.requests = Len(ibc.errors) + 1
  /\ (ibc.pc = "returned" /\ ~ibc.result.success) =>
        /\ ibc.errors # <<>>
        /\ ibc.result.message =
             IF LastError.status = "404"
             THEN NotFoundMessage(ibc.notFoundError)
             ELSE IF LastError.code = "ECONNABORTED"
             THEN "Failed to validate channel id, please try again"
             ELSE "Failed to fetch channel info"
        /\ Timeout(LastError) =>
             (ibc.retry = 0 /\ Len(ibc.errors) = ibc.given + 1)

C26_ChannelQueryEnds ==
  /\ []QueryInv
  /\ (ibc.pc # "idle") ~> (ibc.pc = "returned")

\* retry left out: six requests have timed out and the query has failed
C26_Witness ==
  /\ ibc.pc = "returned"
  /\ ibc.given = DefaultRetry
  /\ ibc.requests = DefaultRetry + 1
  /\ ~ibc.result.success
  /\ ibc.result.message = "Failed to validate channel id, please try again"

\* a timeout, then a 404 on the second request
C26_WitnessNotFound ==
  /\ ibc.pc = "returned"
  /\ ibc.requests = 2
  /\ LastError.status = "404"
  /\ ibc.result.message = "No such channel"

\* two timeouts, then success on the third request
C26_WitnessSuccess ==
  /\ ibc.pc = "returned"
  /\ ibc.requests = 3
  /\ ibc.result.success

=============================================================================
